---- MODULE Spec2Model ----
(***************************************************************************)
(* Model of the OCR job scheduler (ams-back/app/services/ocr_scheduler.py) *)
(* with the parts of the batch engine the scheduler depends on.            *)
(*                                                                         *)
(* The scheduler runs on one asyncio event loop.  A step of the model is   *)
(* the code a task executes between two points where it really suspends:   *)
(* the two asyncio locks are never held across an await, so acquiring     *)
(* them never suspends.                                                    *)
(***************************************************************************)
EXTENDS Integers, Sequences, FiniteSets, TLC

\* ---------------------------------------------------------------- bounds
MaxResults == 3
MaxJobs == 3
MaxConcurrent == 2
MaxTime == 1

MaxGpus == 2
MaxCached == 2
MaxLimit == 2
MaxCoroutines == 3

\* ------------------------------------------------------ program constants
LOW == 1
NORMAL == 2
HIGH == 3
URGENT == 4
JobPriority == {LOW, NORMAL, HIGH, URGENT}

PENDING == "pending"
QUEUED == "queued"
PROCESSING == "processing"
COMPLETED == "completed"
FAILED == "failed"
CANCELLED == "cancelled"
JobStatus == {PENDING, QUEUED, PROCESSING, COMPLETED, FAILED, CANCELLED}

DefaultMaxRetries == 3
DefaultMaxConcurrent == 4

None == "None"

\* a failure whose message is never stored on the job
EngineMissingError_unrecorded == None

\* str(e) of the AttributeError that line 355 raises without an engine
EngineMissingError == "'NoneType' object has no attribute 'process_image_batch'"

JobIds == 1..MaxJobs

VARIABLES
    max_concurrent_jobs,  \* OCRScheduler.max_concurrent_jobs
    jobs,                 \* every OCRJob created so far, indexed by job id
    job_queue,            \* OCRScheduler.job_queue, the heap array of job ids
    processing_jobs,      \* OCRScheduler.processing_jobs, in insertion order
    completed_jobs,       \* OCRScheduler.completed_jobs, in insertion order
    failed_jobs,          \* OCRScheduler.failed_jobs, in insertion order
    stats,                \* OCRScheduler.stats
    batch_ocr_engine,     \* OCRScheduler.batch_ocr_engine: None or "engine"
    initialized,          \* whether the _initialize task has run
    scheduler_task,       \* OCRScheduler.scheduler_task: None or "running"
    task,                 \* position of each job's _process_job task
    clock,                \* datetime.utcnow()
    attempts,             \* per job: how often line 355 called the engine
    callback_calls,       \* per job: how often job.callback was invoked
    last_cancel,          \* what cancel_job returned, when the last step called it
    call,                 \* the call the last step made, with what it returned
    stop_call,            \* position of the stop_scheduler call
    event_loop,           \* the coroutines of the scheduler on the event loop,
                          \* the one that runs, and the holders of
                          \* OCRScheduler.queue_lock and processing_lock
    EASYOCR_AVAILABLE,    \* batch_ocr_engine.EASYOCR_AVAILABLE
    TORCH_AVAILABLE,      \* gpu_manager.TORCH_AVAILABLE and torch.cuda.is_available()
    gpu_task,             \* position of the _initialize_gpu_environment task
    available_gpus,       \* GPUManager.available_gpus
    memory_pools,         \* GPUManager.memory_pools, by device id
    optimal_batch_sizes,  \* GPUManager.optimal_batch_sizes, by cache key
    batch_calls,          \* get_optimal_batch_size calls waiting for the executor
    memory_context,       \* the gpu_memory_context a with statement is in
    engine                \* the BatchOCREngine: current_device, gpu_manager,
                          \* config and the two readers

vars == <<max_concurrent_jobs, jobs, job_queue, processing_jobs, completed_jobs,
          failed_jobs, stats, batch_ocr_engine, initialized, scheduler_task,
          task, clock, attempts, callback_calls, last_cancel, call,
          stop_call, event_loop, EASYOCR_AVAILABLE,
          TORCH_AVAILABLE, gpu_task, available_gpus, memory_pools,
          optimal_batch_sizes, batch_calls, memory_context, engine>>

\* the scheduler's own data, without the record of the last cancel_job call
core == <<max_concurrent_jobs, jobs, job_queue, processing_jobs, completed_jobs,
          failed_jobs, stats, batch_ocr_engine, initialized, scheduler_task,
          task, clock, attempts, callback_calls>>

NoCall == [called |-> FALSE, ret |-> FALSE]

\* the state of the GPU resource manager and of the batch engine, which no
\* method of the scheduler reads or writes
scheduler_side == <<core, last_cancel, stop_call, event_loop>>

\* what the imports at the top of batch_ocr_engine.py and gpu_manager.py found
host == <<EASYOCR_AVAILABLE, TORCH_AVAILABLE>>

gpu_side == <<host, gpu_task, available_gpus, memory_pools,
              optimal_batch_sizes, batch_calls, memory_context, engine>>

\* the last step called none of the recorded functions
NoOp == [op |-> "none"]

\* a dict without keys
EmptyDict == [k \in {} |-> None]

\* ---------------------------------------------------------------- helpers
Range(s) == {s[i] : i \in 1..Len(s)}

Remove(s, x) == SelectSeq(s, LAMBDA y : y # x)

\* max(a, b) and min(a, b)
Max(a, b) == IF a >= b THEN a ELSE b
Min(a, b) == IF a <= b THEN a ELSE b

\* list.pop(i) taken with a 1-based index
RemoveAt_off_by_one(s, i) == SubSeq(s, 1, i) \o SubSeq(s, i + 2, Len(s))

RemoveAt(s, i) == SubSeq(s, 1, i - 1) \o SubSeq(s, i + 1, Len(s))

\* no _process_job task is between two statements of one uninterrupted run
Idle == \A j \in 1..Len(task) : task[j] # "calling"

\* ------------------------------------------------------------ OCRJob.__lt__
\* a comparison that looks at created_at only
OCRJob_lt_ignores_priority(js, a, b) == js[a].created_at < js[b].created_at

OCRJob_lt(js, a, b) ==
    IF js[a].priority # js[b].priority
    THEN js[a].priority > js[b].priority
    ELSE js[a].created_at < js[b].created_at

\* ------------------------------------------------------------------- heapq
\* positions are 0-based as in heapq; heap[p + 1] is the element at p
RECURSIVE siftdown_loop(_, _, _, _, _)
siftdown_loop(js, heap, startpos, pos, newitem) ==
    IF pos > startpos
    THEN LET parentpos == (pos - 1) \div 2
             parent == heap[parentpos + 1]
         IN  IF OCRJob_lt(js, newitem, parent)
             THEN siftdown_loop(js, [heap EXCEPT ![pos + 1] = parent],
                                startpos, parentpos, newitem)
             ELSE [heap EXCEPT ![pos + 1] = newitem]
    ELSE [heap EXCEPT ![pos + 1] = newitem]

siftdown(js, heap, startpos, pos) ==
    siftdown_loop(js, heap, startpos, pos, heap[pos + 1])

RECURSIVE siftup_loop(_, _, _, _, _, _)
siftup_loop(js, heap, startpos, pos, childpos, newitem) ==
    LET endpos == Len(heap) IN
    IF childpos < endpos
    THEN LET rightpos == childpos + 1
             c == IF rightpos < endpos
                     /\ ~OCRJob_lt(js, heap[childpos + 1], heap[rightpos + 1])
                  THEN rightpos ELSE childpos
         IN  siftup_loop(js, [heap EXCEPT ![pos + 1] = heap[c + 1]],
                         startpos, c, 2 * c + 1, newitem)
    ELSE siftdown(js, [heap EXCEPT ![pos + 1] = newitem], startpos, pos)

siftup(js, heap, pos) ==
    siftup_loop(js, heap, pos, pos, 2 * pos + 1, heap[pos + 1])

heappush(js, heap, item) ==
    siftdown(js, Append(heap, item), 0, Len(heap))

\* a _get_next_job that reads the head of the queue and leaves it there
heappop_peek(js, heap) == heap

\* the heap after heappop; the popped item is heap[1]
heappop(js, heap) ==
    LET lastelt == heap[Len(heap)]
        rest == SubSeq(heap, 1, Len(heap) - 1)
    IN  IF rest # <<>>
        THEN siftup(js, [rest EXCEPT ![1] = lastelt], 0)
        ELSE rest

RECURSIVE heapify_loop(_, _, _)
heapify_loop(js, heap, i) ==
    IF i < 0 THEN heap
    ELSE heapify_loop(js, siftup(js, heap, i), i - 1)

\* cancel_job without its heapify call
heapify_skipped(js, heap) == heap

heapify(js, heap) == heapify_loop(js, heap, (Len(heap) \div 2) - 1)

\* ------------------------------------------------------------------- Init
SchedulerStats ==
    [total_jobs |-> 0, pending_jobs |-> 0, processing_jobs |-> 0,
     completed_jobs |-> 0, failed_jobs |-> 0]

\* GPUManager.__init__
GPUManager ==
    /\ gpu_task = "created"
    /\ available_gpus = <<>>
    /\ memory_pools = EmptyDict
    /\ optimal_batch_sizes = EmptyDict
    /\ batch_calls = <<>>
    /\ memory_context = [phase |-> "outside"]

\* BatchOCREngine.__init__ with an OCRConfig whose gpu flag is config_gpu
BatchOCREngine(config_gpu) ==
    engine = [current_device |-> "cpu", gpu_manager |-> None,
              config |-> [gpu |-> config_gpu],
              cpu_reader |-> None, gpu_reader |-> None,
              executor |-> <<>>]

\* no stop_scheduler call was made yet
NoStop == [phase |-> "none", cancelled |-> FALSE, waited |-> 0]

\* a slot without coroutine
NoCoroutine == [code |-> None, pc |-> 0, state |-> "none"]

\* no coroutine of the scheduler was created yet, and the two locks of lines
\* 103-104 are free
NoCoroutines ==
    [coroutines |-> [i \in 1..MaxCoroutines |-> NoCoroutine], running |-> 0,
     queue_lock |-> 0, processing_lock |-> 0]

\* OCRScheduler.__init__
OCRScheduler(max_jobs) ==
    /\ max_concurrent_jobs = max_jobs
    /\ jobs = <<>>
    /\ job_queue = <<>>
    /\ processing_jobs = <<>>
    /\ completed_jobs = <<>>
    /\ failed_jobs = <<>>
    /\ stats = SchedulerStats
    /\ batch_ocr_engine = None
    /\ initialized = FALSE
    /\ scheduler_task = None
    /\ task = <<>>
    /\ clock = 0
    /\ attempts = <<>>
    /\ callback_calls = <<>>
    /\ last_cancel = NoCall
    /\ stop_call = NoStop
    /\ event_loop = NoCoroutines

\* a scheduler of one or more slots on a host with torch and CUDA
Init ==
    /\ \E max_jobs \in 1..MaxConcurrent : OCRScheduler(max_jobs)
    /\ call = NoOp
    /\ GPUManager
    /\ TORCH_AVAILABLE = TRUE
    /\ EASYOCR_AVAILABLE = TRUE
    /\ BatchOCREngine(TRUE)

\* a GPU manager and an engine on a host with or without torch and CUDA; the
\* scheduler next to them has the default number of slots and is never used
InitGpu ==
    /\ OCRScheduler(DefaultMaxConcurrent)
    /\ call = NoOp
    /\ GPUManager
    /\ TORCH_AVAILABLE \in BOOLEAN
    /\ EASYOCR_AVAILABLE = TRUE
    /\ BatchOCREngine(TRUE)

\* ---------------------------------------------------------------- actions
\* OCRScheduler._initialize: get_gpu_manager and get_batch_ocr_engine do not
\* suspend, so the task runs in one step; when ok is FALSE the construction of
\* the engine raised, which the except clause logs.
initialize(ok) ==
    /\ Idle
    /\ ~initialized
    /\ initialized' = TRUE
    /\ IF ok
       THEN /\ batch_ocr_engine' = "engine"
            /\ scheduler_task' =
                   IF scheduler_task = None THEN "running" ELSE scheduler_task
       ELSE UNCHANGED <<batch_ocr_engine, scheduler_task>>
    /\ last_cancel' = NoCall
    /\ call' = NoOp
    /\ UNCHANGED <<gpu_side, stop_call, event_loop>>
    /\ UNCHANGED <<max_concurrent_jobs, jobs, job_queue, processing_jobs,
                   completed_jobs, failed_jobs, stats, task, clock, attempts,
                   callback_calls>>

\* OCRScheduler.start_scheduler called by a user of the scheduler
start_scheduler ==
    /\ Idle
    /\ scheduler_task = None
    /\ scheduler_task' = "running"
    /\ last_cancel' = NoCall
    /\ call' = NoOp
    /\ UNCHANGED <<gpu_side, stop_call, event_loop>>
    /\ UNCHANGED <<max_concurrent_jobs, jobs, job_queue, processing_jobs,
                   completed_jobs, failed_jobs, stats, batch_ocr_engine,
                   initialized, task, clock, attempts, callback_calls>>

\* a datetime field that is None
NoTime == -1

\* an OCRJob as submit_job builds it; images is the length of the image list
OCRJob(images, priority, callback, created_at) ==
    [images |-> images, priority |-> priority, status |-> PENDING,
     created_at |-> created_at, completed_at |-> NoTime,
     result |-> None, error |-> None, callback |-> callback,
     retry_count |-> 0, max_retries |-> DefaultMaxRetries]

\* OCRScheduler.submit_job; the job id is the next unused one, and elapsed is
\* the time that passed since datetime.utcnow() was last read
submit_job(images, priority, callback, elapsed) ==
    /\ Idle
    /\ Len(jobs) < MaxJobs
    /\ clock + elapsed <= MaxTime
    /\ clock' = clock + elapsed
    /\ LET job_id == Len(jobs) + 1
           js == Append(jobs, OCRJob(images, priority, callback,
                                  clock + elapsed))
       IN  /\ jobs' = js
           /\ job_queue' = heappush(js, job_queue, job_id)
           /\ stats' = [stats EXCEPT !.total_jobs = @ + 1,
                                     !.pending_jobs = @ + 1]
           /\ task' = Append(task, "none")
           /\ attempts' = Append(attempts, 0)
           /\ callback_calls' = Append(callback_calls, 0)
           /\ last_cancel' = NoCall
    /\ call' = NoOp
    /\ UNCHANGED <<gpu_side, stop_call, event_loop>>
    /\ UNCHANGED <<max_concurrent_jobs, processing_jobs, completed_jobs,
                   failed_jobs, batch_ocr_engine, initialized, scheduler_task>>

\* index of the first queue entry with this job id, 0 when there is none
queue_index(queue, job_id) ==
    IF \E i \in 1..Len(queue) : queue[i] = job_id
    THEN CHOOSE i \in 1..Len(queue) :
             /\ queue[i] = job_id
             /\ \A k \in 1..(i - 1) : queue[k] # job_id
    ELSE 0

\* OCRScheduler.cancel_job, for any job id a caller may pass
cancel_job(job_id) ==
    /\ Idle
    /\ LET i == queue_index(job_queue, job_id) IN
       IF i # 0
       THEN LET js == [jobs EXCEPT ![job_id].status = CANCELLED] IN
            /\ jobs' = js
            /\ job_queue' = heapify(js, RemoveAt(job_queue, i))
            /\ stats' = [stats EXCEPT !.pending_jobs = @ - 1]
            /\ last_cancel' = [called |-> TRUE, ret |-> TRUE]
       ELSE /\ last_cancel' = [called |-> TRUE, ret |-> FALSE]
            /\ UNCHANGED <<jobs, job_queue, stats>>
    /\ call' = NoOp
    /\ UNCHANGED <<gpu_side, stop_call, event_loop>>
    /\ UNCHANGED <<max_concurrent_jobs, processing_jobs, completed_jobs,
                   failed_jobs, batch_ocr_engine, initialized, scheduler_task,
                   task, clock, attempts, callback_calls>>

\* OCRScheduler._get_next_job on a non-empty queue: the job it returns
get_next_job_result(queue) == queue[1]

\* a slot check that admits one job too many
has_free_slot_off_by_one == Len(processing_jobs) <= max_concurrent_jobs

\* lines 303-307 of _scheduler_loop: the iteration goes on to take a job
has_free_slot == Len(processing_jobs) < max_concurrent_jobs

\* a loop task that goes on iterating after it was cancelled
loop_alive_when_cancelled == scheduler_task # None

\* the task of _scheduler_loop exists and was not cancelled: cancel() raises
\* CancelledError in its sleep, and line 317 leaves the loop
loop_alive == scheduler_task = "running"

\* a sleep whose timer may fire before a created task has run its first step
created_tasks_started_or_not == TRUE

\* the sleep of line 300 ends after every task the loop created earlier (line
\* 315) has run its first step: the created task is ready at once, and the
\* event loop runs what is ready before the callbacks of expired timers
created_tasks_started == \A j \in 1..Len(task) : task[j] # "spawned"

\* One iteration of OCRScheduler._scheduler_loop that dispatches a job.  The
\* iterations that find no free slot or an empty queue change nothing.  The
\* loop sleeps a second after create_task, and the event loop runs the created
\* task's first step before the timer of that sleep, so an iteration never
\* finds an earlier task still unstarted; _initialize likewise ran before the
\* first iteration.
scheduler_loop ==
    /\ Idle
    /\ loop_alive
    /\ initialized
    /\ created_tasks_started
    /\ has_free_slot
    /\ job_queue # <<>>
    /\ LET job == get_next_job_result(job_queue) IN
       /\ job_queue' = heappop(jobs, job_queue)
       /\ jobs' = [jobs EXCEPT ![job].status = QUEUED]
       /\ stats' = [stats EXCEPT !.pending_jobs = @ - 1]
       /\ task' = [task EXCEPT ![job] = "spawned"]
    /\ last_cancel' = NoCall
    /\ call' = NoOp
    /\ UNCHANGED <<gpu_side, stop_call, event_loop>>
    /\ UNCHANGED <<max_concurrent_jobs, processing_jobs, completed_jobs,
                   failed_jobs, batch_ocr_engine, initialized, scheduler_task,
                   clock, attempts, callback_calls>>

\* OCRScheduler._process_job up to the engine call of line 355.  With an
\* engine the task suspends in process_image_batch; without one the attribute
\* access raises at once and the task goes on into the except clause.
process_job(job) ==
    /\ Idle
    /\ job \in 1..Len(task)
    /\ task[job] = "spawned"
    /\ processing_jobs' = Append(processing_jobs, job)
    /\ stats' = [stats EXCEPT !.processing_jobs = @ + 1]
    /\ jobs' = [jobs EXCEPT ![job].status = PROCESSING]
    /\ attempts' = [attempts EXCEPT ![job] = @ + 1]
    /\ task' = [task EXCEPT ![job] =
                   IF batch_ocr_engine = None THEN "calling" ELSE "engine"]
    /\ last_cancel' = NoCall
    /\ call' = NoOp
    /\ UNCHANGED <<gpu_side, stop_call, event_loop>>
    /\ UNCHANGED <<max_concurrent_jobs, job_queue, completed_jobs, failed_jobs,
                   batch_ocr_engine, initialized, scheduler_task, clock,
                   callback_calls>>

\* a retry test that gives up one attempt early
can_retry_strict(retry_count, max_retries) == retry_count < max_retries

\* whether _handle_job_failure re-queues the job, given the new retry_count
can_retry(retry_count, max_retries) == retry_count <= max_retries

\* a retry that enters the queue like a job created now
requeued_job_as_new(job, error, retry_count, now) ==
    [job EXCEPT !.error = error, !.retry_count = retry_count,
                !.status = PENDING, !.created_at = now]

\* lines 392-400 of _handle_job_failure: the job as it is pushed onto the
\* queue again at the time now, which is not read
requeued_job(job, error, retry_count, now) ==
    [job EXCEPT !.error = error, !.retry_count = retry_count,
                !.status = PENDING]

\* OCRScheduler._handle_job_failure, entered from the except clause of
\* _process_job
handle_job_failure(job, error) ==
    /\ job \in 1..Len(task)
    /\ task[job] = "calling"
    /\ LET retry_count == jobs[job].retry_count + 1 IN
       IF can_retry(retry_count, jobs[job].max_retries)
       THEN LET js == [jobs EXCEPT ![job] =
                          requeued_job(jobs[job], error, retry_count, clock)] IN
            /\ jobs' = js
            /\ job_queue' = heappush(js, job_queue, job)
            /\ stats' = [stats EXCEPT
                   !.pending_jobs = @ + 1,
                   !.processing_jobs =
                       IF job \in Range(processing_jobs) THEN @ - 1 ELSE @]
            /\ task' = [task EXCEPT ![job] = "none"]
            /\ UNCHANGED failed_jobs
       ELSE /\ jobs' = [jobs EXCEPT ![job].error = error,
                                    ![job].retry_count = retry_count,
                                    ![job].status = FAILED,
                                    ![job].completed_at = clock]
            /\ failed_jobs' = Append(failed_jobs, job)
            /\ stats' = [stats EXCEPT
                   !.failed_jobs = @ + 1,
                   !.processing_jobs =
                       IF job \in Range(processing_jobs) THEN @ - 1 ELSE @]
            /\ task' = [task EXCEPT ![job] = "done"]
            /\ UNCHANGED job_queue
    /\ processing_jobs' = Remove(processing_jobs, job)
    /\ last_cancel' = NoCall
    /\ call' = NoOp
    /\ UNCHANGED <<gpu_side, stop_call, event_loop>>
    /\ UNCHANGED <<max_concurrent_jobs, completed_jobs, batch_ocr_engine,
                   initialized, scheduler_task, clock, attempts,
                   callback_calls>>

\* lines 375-381 of _process_job: the job moves to completed_jobs
\* a completion that forgets to store the job
move_to_completed_dropped(job) ==
    /\ processing_jobs' = Remove(processing_jobs, job)
    /\ completed_jobs' = completed_jobs
    /\ stats' = [stats EXCEPT !.processing_jobs = @ - 1,
                              !.completed_jobs = @ + 1]
    /\ task' = [task EXCEPT ![job] = "done"]

\* lines 376-381 of _process_job: the job moves from processing_jobs to
\* completed_jobs and its task ends
move_to_completed(job) ==
    /\ processing_jobs' = Remove(processing_jobs, job)
    /\ completed_jobs' = Append(completed_jobs, job)
    /\ stats' = [stats EXCEPT !.processing_jobs = @ - 1,
                              !.completed_jobs = @ + 1]
    /\ task' = [task EXCEPT ![job] = "done"]

\* what BatchOCREngine.process_image_batch returns: a BatchOCRResult
EngineResults == {"result"}

\* lines 357-381 of _process_job, from the return of process_image_batch to
\* the await of the callback, or to the end when the job has no callback
store_result(job, result) ==
    /\ Idle
    /\ job \in 1..Len(task)
    /\ task[job] = "engine"
    /\ jobs' = [jobs EXCEPT ![job].result = result,
                            ![job].status = COMPLETED,
                            ![job].completed_at = clock]
    /\ IF jobs[job].callback
       THEN /\ callback_calls' = [callback_calls EXCEPT ![job] = @ + 1]
            /\ task' = [task EXCEPT ![job] = "callback"]
            /\ UNCHANGED <<processing_jobs, completed_jobs, stats>>
       ELSE /\ move_to_completed(job)
            /\ UNCHANGED callback_calls
    /\ last_cancel' = NoCall
    /\ UNCHANGED stop_call
    /\ UNCHANGED <<max_concurrent_jobs, job_queue, failed_jobs,
                   batch_ocr_engine, initialized, scheduler_task, clock,
                   attempts>>

\* _process_job resumed by the return of an engine call that is not looked
\* into
engine_return(job, result) ==
    /\ store_result(job, result)
    /\ call' = NoOp
    /\ UNCHANGED <<gpu_side, event_loop>>

\* a _process_job without the try/except around the callback
callback_error_escapes(raised) == raised

\* lines 370-373 of _process_job: whether an exception of the callback leaves
\* the inner try statement; except Exception catches and logs it
callback_error_propagates(raised) == FALSE

\* _process_job after the callback returned or raised.  An exception that left
\* the inner try statement would reach the except clause of line 385.
callback_return(job, raised) ==
    /\ Idle
    /\ job \in 1..Len(task)
    /\ task[job] = "callback"
    /\ IF callback_error_propagates(raised)
       THEN /\ task' = [task EXCEPT ![job] = "calling"]
            /\ UNCHANGED <<processing_jobs, completed_jobs, stats>>
       ELSE move_to_completed(job)
    /\ last_cancel' = NoCall
    /\ call' = NoOp
    /\ UNCHANGED <<gpu_side, stop_call, event_loop>>
    /\ UNCHANGED <<max_concurrent_jobs, jobs, job_queue, failed_jobs,
                   batch_ocr_engine, initialized, scheduler_task, clock,
                   attempts, callback_calls>>

\* JobPriority(...).name
priority_name(priority) ==
    CASE priority = LOW -> "LOW"
      [] priority = NORMAL -> "NORMAL"
      [] priority = HIGH -> "HIGH"
      [] priority = URGENT -> "URGENT"

\* what a call returns that returns None
NotFound == [none |-> TRUE]

\* OCRScheduler._job_to_dict; the result summary is there when job.result is
\* set, and a BatchOCRResult is always truthy
job_to_dict(job_id) ==
    LET job == jobs[job_id]
        job_dict == [job_id |-> job_id,
                     priority |-> priority_name(job.priority),
                     status |-> job.status,
                     created_at |-> job.created_at,
                     completed_at |-> job.completed_at,
                     error |-> job.error,
                     retry_count |-> job.retry_count,
                     max_retries |-> job.max_retries]
    IN  IF job.result # None
        THEN [has_result |-> TRUE, job_dict |-> job_dict, result |-> job.result]
        ELSE [has_result |-> FALSE, job_dict |-> job_dict]

\* what OCRScheduler.get_job_status returns: the stores are searched in the
\* order processing_jobs, completed_jobs, failed_jobs, job_queue
job_status(job_id) ==
    IF job_id \in Range(processing_jobs) THEN job_to_dict(job_id)
    ELSE IF job_id \in Range(completed_jobs) THEN job_to_dict(job_id)
    ELSE IF job_id \in Range(failed_jobs) THEN job_to_dict(job_id)
    ELSE IF job_id \in Range(job_queue) THEN job_to_dict(job_id)
    ELSE NotFound

\* OCRScheduler.get_job_status, for any job id a caller may pass; neither lock
\* is ever held by a suspended task, so the call runs in one step
get_job_status(job_id) ==
    /\ Idle
    /\ call' = [op |-> "get_job_status", args |-> job_id,
                ret |-> job_status(job_id)]
    /\ last_cancel' = NoCall
    /\ UNCHANGED <<gpu_side, stop_call, event_loop>>
    /\ UNCHANGED core

\* the steps of the scheduler's own tasks and of the calls that take no input
\* but a job id
scheduler_step ==
    \/ \E ok \in BOOLEAN : initialize(ok)
    \/ start_scheduler
    \/ \E job_id \in JobIds : cancel_job(job_id)
    \/ scheduler_loop
    \/ \E job \in JobIds : process_job(job)
    \/ \E job \in JobIds : handle_job_failure(job, EngineMissingError)
    \/ \E job \in JobIds, result \in EngineResults : engine_return(job, result)

\* Jobs with and without a callback, of two priorities, submitted at one instant
Next ==
    \/ \E priority \in {NORMAL, HIGH}, callback \in BOOLEAN :
           submit_job(1, priority, callback, 0)
    \/ scheduler_step
    \/ \E job \in JobIds, raised \in BOOLEAN : callback_return(job, raised)

Spec == Init /\ [][Next]_vars

\* Jobs without callback, of three priorities, submitted at the same or at
\* different instants; no task of theirs awaits a callback
NextOrder ==
    \/ \E priority \in {LOW, NORMAL, URGENT}, elapsed \in 0..1 :
           submit_job(1, priority, FALSE, elapsed)
    \/ scheduler_step

SpecOrder == Init /\ [][NextOrder]_vars

\* The event loop runs every task that is ready: the scheduler loop wakes from
\* each sleep, a created task starts, and a task resumes once the engine or
\* the callback it awaits has returned.
Fairness ==
    /\ WF_vars(scheduler_loop)
    /\ \A job \in JobIds :
           /\ WF_vars(process_job(job))
           /\ WF_vars(handle_job_failure(job, EngineMissingError))
           /\ WF_vars(\E result \in EngineResults : engine_return(job, result))
           /\ WF_vars(\E raised \in BOOLEAN : callback_return(job, raised))

SpecLive == Spec /\ Fairness

\* Jobs of one priority: with an empty image list and no callback, or with
\* one image and a callback
NextApi ==
    \/ \E images \in 0..1 : submit_job(images, NORMAL, images = 1, 0)
    \/ scheduler_step
    \/ \E job \in JobIds, raised \in BOOLEAN : callback_return(job, raised)
    \/ \E job_id \in JobIds : get_job_status(job_id)

SpecApi == Init /\ [][NextApi]_vars

\* --------------------------------------------------------- get_job_list
\* the Python slices s[:n] and s[-n:] for any integer n
slice_to(s, n) ==
    IF n >= 0 THEN SubSeq(s, 1, Min(n, Len(s)))
    ELSE SubSeq(s, 1, Max(Len(s) + n, 0))

slice_last(s, n) ==
    IF n > 0 THEN SubSeq(s, Max(Len(s) - n, 0) + 1, Len(s))
    ELSE SubSeq(s, Min(-n, Len(s)) + 1, Len(s))

\* the views of the jobs of a list of job ids
job_dicts(job_ids) == [i \in 1..Len(job_ids) |-> job_to_dict(job_ids[i])]

RECURSIVE insert_by_created_at(_, _)
\* view put into a list sorted by created_at descending, behind the views
\* that are as new
insert_by_created_at(sorted, view) ==
    IF sorted = <<>> THEN <<view>>
    ELSE IF sorted[1].job_dict.created_at >= view.job_dict.created_at
    THEN <<sorted[1]>> \o insert_by_created_at(Tail(sorted), view)
    ELSE <<view>> \o sorted

RECURSIVE sort_loop(_, _)
sort_loop(views, sorted) ==
    IF views = <<>> THEN sorted
    ELSE sort_loop(Tail(views), insert_by_created_at(sorted, views[1]))

\* jobs.sort(key=lambda x: x["created_at"], reverse=True), a stable sort
sort_by_created_at(views) == sort_loop(views, <<>>)

\* what OCRScheduler.get_job_list returns; status is None or a JobStatus
job_list(status, limit) ==
    LET pending == IF status \in {None, PENDING}
                   THEN job_dicts(slice_to(job_queue, limit)) ELSE <<>>
        processing == IF status \in {None, PROCESSING}
                      THEN job_dicts(slice_to(processing_jobs, limit))
                      ELSE <<>>
        completed == IF status \in {None, COMPLETED}
                     THEN job_dicts(slice_last(completed_jobs, limit))
                     ELSE <<>>
        failed == IF status \in {None, FAILED}
                  THEN job_dicts(slice_last(failed_jobs, limit)) ELSE <<>>
    IN  slice_to(sort_by_created_at(pending \o processing \o completed
                                        \o failed),
                 limit)

\* OCRScheduler.get_job_list; it suspends nowhere, the locks being free
get_job_list(status, limit) ==
    /\ Idle
    /\ call' = [op |-> "get_job_list",
                args |-> [status |-> status, limit |-> limit],
                ret |-> job_list(status, limit)]
    /\ last_cancel' = NoCall
    /\ UNCHANGED <<gpu_side, stop_call, event_loop>>
    /\ UNCHANGED core

Limits == 0..MaxLimit

\* Jobs with a callback, of one priority, submitted at the same or at
\* different instants, and listed with every filter
NextList ==
    \/ \E elapsed \in 0..1 : submit_job(1, NORMAL, TRUE, elapsed)
    \/ \E ok \in BOOLEAN : initialize(ok)
    \/ start_scheduler
    \/ scheduler_loop
    \/ \E job \in JobIds : process_job(job)
    \/ \E job \in JobIds : handle_job_failure(job, EngineMissingError)
    \/ \E job \in JobIds, result \in EngineResults : engine_return(job, result)
    \/ \E job \in JobIds : callback_return(job, FALSE)
    \/ \E status \in {None} \cup JobStatus, limit \in Limits :
           get_job_list(status, limit)

SpecList == Init /\ [][NextList]_vars

\* ----------------------------------------------------- cleanup_old_jobs
\* an age test that also takes the jobs completed exactly at the cutoff
is_old_or_at_cutoff(completed_at, cutoff_time) ==
    completed_at # NoTime /\ completed_at <= cutoff_time

\* lines 544 and 553: job.completed_at and job.completed_at < cutoff_time
is_old(completed_at, cutoff_time) ==
    completed_at # NoTime /\ completed_at < cutoff_time

\* a store without the jobs that lines 543-548 or 552-557 delete from it
without_old_jobs(store, cutoff_time) ==
    SelectSeq(store, LAMBDA job_id :
                         ~is_old(jobs[job_id].completed_at, cutoff_time))

\* OCRScheduler.cleanup_old_jobs, called when elapsed time has passed since
\* datetime.utcnow() was last read; the clock counts hours.  The method
\* suspends nowhere and updates no counter of stats.
cleanup_old_jobs(max_age_hours, elapsed) ==
    /\ Idle
    /\ clock + elapsed <= MaxTime
    /\ clock' = clock + elapsed
    /\ LET cutoff_time == clock + elapsed - max_age_hours IN
       /\ completed_jobs' = without_old_jobs(completed_jobs, cutoff_time)
       /\ failed_jobs' = without_old_jobs(failed_jobs, cutoff_time)
       /\ call' = [op |-> "cleanup_old_jobs", args |-> max_age_hours,
                   cutoff_time |-> cutoff_time]
    /\ last_cancel' = NoCall
    /\ UNCHANGED <<gpu_side, stop_call, event_loop>>
    /\ UNCHANGED <<max_concurrent_jobs, jobs, job_queue, processing_jobs,
                   stats, batch_ocr_engine, initialized, scheduler_task, task,
                   attempts, callback_calls>>

\* the retention windows a caller passes, in hours
MaxAges == 0..MaxTime

\* Jobs of one priority without callback, submitted, run and swept at the
\* same or at different instants
NextCleanup ==
    \/ \E elapsed \in 0..1 : submit_job(1, NORMAL, FALSE, elapsed)
    \/ \E ok \in BOOLEAN : initialize(ok)
    \/ start_scheduler
    \/ scheduler_loop
    \/ \E job \in JobIds : process_job(job)
    \/ \E job \in JobIds : handle_job_failure(job, EngineMissingError)
    \/ \E job \in JobIds, result \in EngineResults : engine_return(job, result)
    \/ \E max_age_hours \in MaxAges, elapsed \in 0..1 :
           cleanup_old_jobs(max_age_hours, elapsed)

SpecCleanup == Init /\ [][NextCleanup]_vars

\* ------------------------------------------------------- stop_scheduler
\* the timeout of _wait_for_completion, in seconds
DrainTimeout == 30

\* a wait that goes on for as long as jobs are in flight
drain_goes_on_without_timeout(waited) == processing_jobs # <<>>

\* the loop condition of _wait_for_completion after waited seconds
drain_goes_on(waited) == processing_jobs # <<>> /\ waited < DrainTimeout

\* _wait_for_completion entered by stop_scheduler: it returns at once or
\* suspends in its first sleep
wait_for_completion_entered(cancelled) ==
    stop_call' = [phase |-> IF drain_goes_on(0) THEN "waiting" ELSE "returned",
                  cancelled |-> cancelled, waited |-> 0]

\* OCRScheduler.stop_scheduler up to its first suspension.  With a scheduler
\* task it cancels the task (and the monitor task start_scheduler created
\* with it) and awaits it; without one it goes on into _wait_for_completion.
stop_scheduler ==
    /\ Idle
    /\ stop_call.phase \in {"none", "returned"}
    /\ IF scheduler_task # None
       THEN /\ scheduler_task' = "cancelled"
            /\ stop_call' = [phase |-> "tasks", cancelled |-> TRUE,
                             waited |-> 0]
       ELSE /\ wait_for_completion_entered(FALSE)
            /\ UNCHANGED scheduler_task
    /\ last_cancel' = NoCall
    /\ call' = NoOp
    /\ UNCHANGED <<gpu_side, event_loop>>
    /\ UNCHANGED <<max_concurrent_jobs, jobs, job_queue, processing_jobs,
                   completed_jobs, failed_jobs, stats, batch_ocr_engine,
                   initialized, task, clock, attempts, callback_calls>>

\* stop_scheduler resumed when the cancelled tasks have ended: it forgets them
\* and enters _wait_for_completion
stop_scheduler_tasks_ended ==
    /\ Idle
    /\ stop_call.phase = "tasks"
    /\ scheduler_task' = None
    /\ wait_for_completion_entered(TRUE)
    /\ last_cancel' = NoCall
    /\ call' = NoOp
    /\ UNCHANGED <<gpu_side, event_loop>>
    /\ UNCHANGED <<max_concurrent_jobs, jobs, job_queue, processing_jobs,
                   completed_jobs, failed_jobs, stats, batch_ocr_engine,
                   initialized, task, clock, attempts, callback_calls>>

\* _wait_for_completion woken from a sleep of one second: it sleeps again, or
\* returns, and stop_scheduler with it, because nothing is in flight or the
\* timeout has passed
wait_for_completion ==
    /\ Idle
    /\ stop_call.phase = "waiting"
    /\ stop_call' =
           [stop_call EXCEPT
                !.waited = @ + 1,
                !.phase = IF drain_goes_on(stop_call.waited + 1)
                          THEN "waiting" ELSE "returned"]
    /\ last_cancel' = NoCall
    /\ call' = NoOp
    /\ UNCHANGED <<gpu_side, event_loop>>
    /\ UNCHANGED core

\* Jobs of one priority without callback on a scheduler that is stopped, and
\* may be started again
NextStop ==
    \/ submit_job(1, NORMAL, FALSE, 0)
    \/ \E ok \in BOOLEAN : initialize(ok)
    \/ start_scheduler
    \/ scheduler_loop
    \/ \E job \in JobIds : process_job(job)
    \/ \E job \in JobIds : handle_job_failure(job, EngineMissingError)
    \/ \E job \in JobIds, result \in EngineResults : engine_return(job, result)
    \/ stop_scheduler
    \/ stop_scheduler_tasks_ended
    \/ wait_for_completion

SpecStop == Init /\ [][NextStop]_vars

\* The event loop resumes stop_scheduler when the cancelled tasks have ended
\* and wakes _wait_for_completion from every sleep, and a task in the except
\* clause of _process_job runs on into _handle_job_failure without suspending;
\* nothing is assumed about the engine, whose calls may never return
FairnessStop ==
    /\ WF_vars(stop_scheduler_tasks_ended)
    /\ WF_vars(wait_for_completion)
    /\ \A job \in JobIds : WF_vars(handle_job_failure(job, EngineMissingError))

SpecStopLive == SpecStop /\ FairnessStop

\* ---------------------------------------------------- GPU resource manager
\* a GPUInfo as _collect_gpu_info_sync builds it, sizes in MB
GPUInfo(id, memory_total, memory_used) ==
    [id |-> id, memory_total |-> memory_total, memory_used |-> memory_used,
     is_available |-> TRUE]

\* What the probes of _collect_gpu_info_sync can find on a host: for each
\* device of range(device_count), whether get_device_properties and
\* mem_get_info succeeded, and the memory they reported
Probes(totals, useds) ==
    UNION {[1..n -> [ok : BOOLEAN, memory_total : totals, memory_used : useds]] :
               n \in 0..MaxGpus}

\* GPUManager._collect_gpu_info_sync: the devices whose probe succeeded, in
\* the order of their ids
collect_gpu_info_sync(probe) ==
    LET found == [i \in 1..Len(probe) |->
                     [ok |-> probe[i].ok,
                      gpu |-> GPUInfo(i - 1, probe[i].memory_total,
                                      probe[i].memory_used)]]
        kept == SelectSeq(found, LAMBDA f : f.ok)
    IN  [i \in 1..Len(kept) |-> kept[i].gpu]

\* int(gpu.memory_total * self.memory_reserve_ratio), ratio 0.1; the float
\* product truncates to the integer quotient for every size below 70000 MB
reserved_memory(memory_total) == memory_total \div 10

GPUMemoryPool(device_id, total_memory) ==
    [device_id |-> device_id, total_memory |-> total_memory,
     allocated_memory |-> 0, cached_memory |-> 0,
     reserved_memory |-> reserved_memory(total_memory)]

\* the dict GPUManager._initialize_memory_pools fills, one pool per available
\* GPU under its id
initialize_memory_pools(gpus) ==
    LET ids == {gpus[i].id : i \in {k \in 1..Len(gpus) : gpus[k].is_available}}
        last(d) == CHOOSE i \in 1..Len(gpus) :
                       /\ gpus[i].id = d /\ gpus[i].is_available
                       /\ \A k \in (i + 1)..Len(gpus) :
                              ~(gpus[k].id = d /\ gpus[k].is_available)
    IN  [d \in ids |-> GPUMemoryPool(d, gpus[last(d)].memory_total)]

\* GPUManager._initialize_gpu_environment up to its suspension in
\* run_in_executor; without torch or CUDA it returns at once
initialize_gpu_environment ==
    /\ gpu_task = "created"
    /\ gpu_task' = IF TORCH_AVAILABLE THEN "collecting" ELSE "done"
    /\ call' = NoOp
    /\ UNCHANGED <<host, available_gpus, memory_pools,
                   optimal_batch_sizes, batch_calls, memory_context, engine>>
    /\ UNCHANGED scheduler_side

\* _initialize_gpu_environment from the return of the executor to its end:
\* line 99 of _collect_gpu_info, then _initialize_memory_pools
collect_gpu_info(probe) ==
    /\ gpu_task = "collecting"
    /\ gpu_task' = "done"
    /\ available_gpus' = collect_gpu_info_sync(probe)
    /\ memory_pools' = initialize_memory_pools(collect_gpu_info_sync(probe))
    /\ call' = NoOp
    /\ UNCHANGED <<host, optimal_batch_sizes, batch_calls,
                   memory_context, engine>>
    /\ UNCHANGED scheduler_side

BaseMemory == 500
PerImageMemory == 50
PixelsPerMB == 10000
DefaultPerItemMemory == 100
MaxBatchSize == 32

\* lines 205-211: the per-image estimate of the easyocr branch, in MB
per_image_memory(input_size) ==
    IF Len(input_size) >= 2
    THEN Max(PerImageMemory, (input_size[1] * input_size[2]) \div PixelsPerMB)
    ELSE PerImageMemory

\* lines 199-200; int(available_memory * 0.85) truncates to the integer
\* quotient for every pool below 70000 MB
max_usable_memory(pool) ==
    ((pool.total_memory - pool.reserved_memory) * 85) \div 100

\* a batch size that takes the whole budget for the images, the model included
max_batch_size_without_base(model_type, input_size, pool) ==
    IF model_type = "easyocr"
    THEN Max(1, max_usable_memory(pool) \div per_image_memory(input_size))
    ELSE Max(1, max_usable_memory(pool) \div DefaultPerItemMemory)

\* lines 203-217: the batch size before it is limited to the practical range
max_batch_size(model_type, input_size, pool) ==
    IF model_type = "easyocr"
    THEN Max(1, (max_usable_memory(pool) - BaseMemory)
                    \div per_image_memory(input_size))
    ELSE Max(1, max_usable_memory(pool) \div DefaultPerItemMemory)

\* a calculation without the upper limit of line 220
calculate_optimal_batch_size_uncapped(model_type, input_size, device_id) ==
    IF ~TORCH_AVAILABLE \/ device_id \notin DOMAIN memory_pools
    THEN 1
    ELSE Max(max_batch_size(model_type, input_size, memory_pools[device_id]), 1)

\* a calculation without the lower limits of lines 213 and 221
calculate_optimal_batch_size_unclamped(model_type, input_size, device_id) ==
    IF ~TORCH_AVAILABLE \/ device_id \notin DOMAIN memory_pools
    THEN 1
    ELSE Min((max_usable_memory(memory_pools[device_id]) - BaseMemory)
                 \div per_image_memory(input_size), MaxBatchSize)

\* GPUManager._calculate_optimal_batch_size; with integer sizes no statement
\* of its try block raises
calculate_optimal_batch_size(model_type, input_size, device_id) ==
    IF ~TORCH_AVAILABLE \/ device_id \notin DOMAIN memory_pools
    THEN 1
    ELSE Max(Min(max_batch_size(model_type, input_size,
                                memory_pools[device_id]), MaxBatchSize), 1)

\* f"{model_type}_{input_size}_{device_id}"
cache_key(model_type, input_size, device_id) ==
    <<model_type, input_size, device_id>>

\* GPUManager.get_optimal_batch_size up to its return from the cache or its
\* suspension in run_in_executor; submitting to an executor that was shut
\* down raises, and the except clause returns 1
get_optimal_batch_size(model_type, input_size, device_id, executor_ok) ==
    LET key == cache_key(model_type, input_size, device_id) IN
    /\ IF key \in DOMAIN optimal_batch_sizes
       THEN /\ call' = [op |-> "get_optimal_batch_size", args |-> key,
                        ret |-> optimal_batch_sizes[key], cached |-> TRUE]
            /\ UNCHANGED batch_calls
       ELSE IF ~executor_ok
       THEN /\ call' = [op |-> "get_optimal_batch_size", args |-> key,
                        ret |-> 1, cached |-> FALSE]
            /\ UNCHANGED batch_calls
       ELSE /\ Cardinality(DOMAIN optimal_batch_sizes) + Len(batch_calls)
                   < MaxCached
            /\ batch_calls' = Append(batch_calls,
                                     [key |-> key, done |-> FALSE, batch_size |-> 0])
            /\ call' = NoOp
    /\ UNCHANGED <<host, gpu_task, available_gpus, memory_pools,
                   optimal_batch_sizes, memory_context, engine>>
    /\ UNCHANGED scheduler_side

\* the executor thread runs _calculate_optimal_batch_size for a waiting call
executor_calculate(i) ==
    /\ i \in 1..Len(batch_calls)
    /\ ~batch_calls[i].done
    /\ LET key == batch_calls[i].key IN
       batch_calls' = [batch_calls EXCEPT
           ![i].done = TRUE,
           ![i].batch_size =
               calculate_optimal_batch_size(key[1], key[2], key[3])]
    /\ call' = NoOp
    /\ UNCHANGED <<host, gpu_task, available_gpus, memory_pools,
                   optimal_batch_sizes, memory_context, engine>>
    /\ UNCHANGED scheduler_side

\* get_optimal_batch_size from the return of the executor: lines 184-185
batch_size_return(i) ==
    /\ i \in 1..Len(batch_calls)
    /\ batch_calls[i].done
    /\ LET key == batch_calls[i].key
           batch_size == batch_calls[i].batch_size
       IN  /\ optimal_batch_sizes' =
                  [k \in DOMAIN optimal_batch_sizes \cup {key} |->
                      IF k = key THEN batch_size ELSE optimal_batch_sizes[k]]
           /\ call' = [op |-> "get_optimal_batch_size", args |-> key,
                       ret |-> batch_size, cached |-> FALSE]
    /\ batch_calls' = RemoveAt(batch_calls, i)
    /\ UNCHANGED <<host, gpu_task, available_gpus, memory_pools,
                   memory_context, engine>>
    /\ UNCHANGED scheduler_side

\* the inputs of the batch-size specification
MemoryTotals == {100, 4096}
ModelTypes == {"easyocr", "tesseract"}
InputSizes == {<<640>>, <<640, 480>>, <<2000, 1500>>}
DeviceIds == 0..(MaxGpus - 1)

NextBatch ==
    \/ initialize_gpu_environment
    \/ \E probe \in Probes(MemoryTotals, {0}) : collect_gpu_info(probe)
    \/ \E model_type \in ModelTypes, input_size \in InputSizes,
          device_id \in DeviceIds, executor_ok \in BOOLEAN :
           get_optimal_batch_size(model_type, input_size, device_id,
                                  executor_ok)
    \/ \E i \in 1..MaxCached : executor_calculate(i)
    \/ \E i \in 1..MaxCached : batch_size_return(i)

SpecBatch == InitGpu /\ [][NextBatch]_vars

\* min(gpus, key = ...) of get_recommended_device with memory_used alone as
\* the key
get_recommended_device_by_memory_only(gpus) ==
    IF gpus = <<>>
    THEN -1
    ELSE LET best == CHOOSE i \in 1..Len(gpus) :
                         /\ \A j \in 1..Len(gpus) :
                                gpus[i].memory_used <= gpus[j].memory_used
                         /\ \A j \in 1..(i - 1) :
                                gpus[j].memory_used > gpus[i].memory_used
         IN  IF gpus[best].is_available THEN gpus[best].id ELSE -1

\* the key of line 395: memory_used, or float('inf') for an unavailable GPU
recommend_key(gpu) ==
    [inf |-> ~gpu.is_available,
     memory_used |-> IF gpu.is_available THEN gpu.memory_used ELSE 0]

\* a < b on those keys
recommend_key_lt(a, b) ==
    /\ ~a.inf
    /\ b.inf \/ a.memory_used < b.memory_used

\* GPUManager.get_recommended_device on the list available_gpus; min returns
\* the first of the items with the least key
get_recommended_device(gpus) ==
    IF gpus = <<>>
    THEN -1
    ELSE LET key(i) == recommend_key(gpus[i])
             best == CHOOSE i \in 1..Len(gpus) :
                         /\ \A j \in 1..Len(gpus) :
                                ~recommend_key_lt(key(j), key(i))
                         /\ \A j \in 1..(i - 1) :
                                recommend_key_lt(key(i), key(j))
         IN  IF gpus[best].is_available THEN gpus[best].id ELSE -1

\* a caller asks for the recommended device
recommend_device ==
    /\ call' = [op |-> "get_recommended_device",
                ret |-> get_recommended_device(available_gpus)]
    /\ UNCHANGED <<gpu_side, event_loop>>
    /\ UNCHANGED scheduler_side

\* the GPU lists of the recommendation specification: up to MaxGpus devices
\* with ascending ids, any of them marked unavailable
MemoryUsed == {0, 512, 1024}

GpuLists ==
    LET infos == [id : 0..MaxGpus, memory_total : {4096},
                  memory_used : MemoryUsed, is_available : BOOLEAN]
        lists == UNION {[1..n -> infos] : n \in 0..MaxGpus}
    IN  {l \in lists : \A i \in 1..(Len(l) - 1) : l[i].id < l[i + 1].id}

\* a GPU manager that holds any such list; is_available is a plain field of
\* GPUInfo that the collector sets and a holder of the list may clear
InitRecommend ==
    /\ OCRScheduler(DefaultMaxConcurrent)
    /\ call = NoOp
    /\ TORCH_AVAILABLE = TRUE
    /\ EASYOCR_AVAILABLE = TRUE
    /\ gpu_task = "done"
    /\ available_gpus \in GpuLists
    /\ memory_pools = initialize_memory_pools(available_gpus)
    /\ optimal_batch_sizes = EmptyDict
    /\ batch_calls = <<>>
    /\ memory_context = [phase |-> "outside"]
    /\ BatchOCREngine(TRUE)

NextRecommend == recommend_device

SpecRecommend == InitRecommend /\ [][NextRecommend]_vars

\* Which yield of GPUManager.gpu_memory_context the with statement is entered
\* through: line 244 after the entry cleanup ("pool"), line 256 when the
\* device has no pool ("no_pool"), line 260 in the except clause when a torch
\* call of the entry raised ("except")
context_yield(device_id, torch_raises) ==
    IF TORCH_AVAILABLE /\ device_id \in DOMAIN memory_pools
    THEN IF torch_raises THEN "except" ELSE "pool"
    ELSE "no_pool"

\* __enter__ of gpu_memory_context(device_id): the generator runs to a yield
context_enter(device_id, torch_raises) ==
    /\ memory_context.phase # "inside"
    /\ memory_context' =
           [phase |-> "inside", device_id |-> device_id,
            yield |-> context_yield(device_id, torch_raises)]
    /\ call' = NoOp
    /\ UNCHANGED <<host, gpu_task, available_gpus, memory_pools,
                   optimal_batch_sizes, batch_calls, engine>>
    /\ UNCHANGED scheduler_side

\* __exit__ of gpu_memory_context when the body of the with statement ended
\* normally or raised.  contextlib resumes the generator or throws the
\* exception into it at the yield it stopped at.  Thrown at line 244 or 256,
\* the exception is caught by the except clause of line 258, which logs it
\* and yields again: contextlib then raises RuntimeError("generator didn't
\* stop after throw()") in place of the exception, and lines 246-254 never
\* run.  Thrown at line 260, outside the try block, it leaves the generator
\* and propagates.
context_exit(body_raises) ==
    /\ memory_context.phase = "inside"
    /\ memory_context' =
           [phase |-> "exited",
            device_id |-> memory_context.device_id,
            yield |-> memory_context.yield,
            body_raised |-> body_raises,
            cache_cleared |-> memory_context.yield = "pool" /\ ~body_raises,
            raised |-> IF ~body_raises THEN None
                       ELSE IF memory_context.yield = "except"
                       THEN "body exception"
                       ELSE "RuntimeError"]
    /\ call' = NoOp
    /\ UNCHANGED <<host, gpu_task, available_gpus, memory_pools,
                   optimal_batch_sizes, batch_calls, engine>>
    /\ UNCHANGED scheduler_side

NextContext ==
    \/ initialize_gpu_environment
    \/ \E probe \in Probes(MemoryTotals, {0}) : collect_gpu_info(probe)
    \/ \E device_id \in DeviceIds, torch_raises \in BOOLEAN :
           context_enter(device_id, torch_raises)
    \/ \E body_raises \in BOOLEAN : context_exit(body_raises)

SpecContext == InitGpu /\ [][NextContext]_vars

\* ----------------------------------------------------------- batch engine
\* f"cuda:{device_id}"
cuda_device(device_id) == "cuda:" \o ToString(device_id)

\* the device strings a caller passes to switch_device: the two keywords, a
\* cuda name for every index up to one past the last device, a cuda name
\* without a number, and a name of no known form
DeviceIndexes == 0..MaxGpus
DeviceArgs ==
    {"auto", "cpu", "gpu", "cuda:x"} \cup {cuda_device(n) : n \in DeviceIndexes}

\* device.startswith("cuda:")
startswith_cuda(device) ==
    device = "cuda:x" \/ \E n \in DeviceIndexes : device = cuda_device(n)

\* whether int(device.split(":")[1]) returns rather than raises ValueError
int_parses(device) == \E n \in DeviceIndexes : device = cuda_device(n)

\* int(device.split(":")[1]) of a device string that carries a number
int_of(device) == CHOOSE n \in DeviceIndexes : device = cuda_device(n)

\* GPUManager.is_gpu_available, for a device id that is not negative: the id
\* is used as a position in available_gpus
is_gpu_available(device_id) ==
    IF ~TORCH_AVAILABLE THEN FALSE
    ELSE IF device_id >= Len(available_gpus) THEN FALSE
    ELSE available_gpus[device_id + 1].is_available

\* the device BatchOCREngine._select_optimal_device assigns to current_device
select_optimal_device ==
    IF ~engine.config.gpu \/ ~TORCH_AVAILABLE THEN "cpu"
    ELSE IF engine.gpu_manager # None /\ is_gpu_available(0)
    THEN IF get_recommended_device(available_gpus) >= 0
         THEN cuda_device(get_recommended_device(available_gpus))
         ELSE "cpu"
    ELSE "cpu"

\* BatchOCREngine._initialize: get_gpu_manager does not suspend
engine_initialize ==
    /\ engine.gpu_manager = None
    /\ LET with_manager == [engine EXCEPT !.gpu_manager = "gpu_manager"] IN
       engine' = [with_manager EXCEPT !.current_device =
                     IF ~engine.config.gpu \/ ~TORCH_AVAILABLE THEN "cpu"
                     ELSE IF is_gpu_available(0)
                     THEN IF get_recommended_device(available_gpus) >= 0
                          THEN cuda_device(
                                   get_recommended_device(available_gpus))
                          ELSE "cpu"
                     ELSE "cpu"]
    /\ call' = NoOp
    /\ UNCHANGED <<host, gpu_task, available_gpus, memory_pools,
                   optimal_batch_sizes, batch_calls, memory_context>>
    /\ UNCHANGED scheduler_side

\* BatchOCREngine.switch_device; the except clause returns False after a
\* ValueError of int(), which is evaluated only when there is a gpu_manager
switch_device(device) ==
    /\ IF device = "auto"
       THEN /\ engine' = [engine EXCEPT !.current_device = select_optimal_device]
            /\ call' = [op |-> "switch_device", args |-> device, ret |-> TRUE]
       ELSE IF device = "cpu"
       THEN /\ engine' = [engine EXCEPT !.current_device = "cpu"]
            /\ call' = [op |-> "switch_device", args |-> device, ret |-> TRUE]
       ELSE IF startswith_cuda(device)
       THEN IF engine.gpu_manager = None
            THEN /\ engine' = [engine EXCEPT !.current_device = "cpu"]
                 /\ call' = [op |-> "switch_device", args |-> device,
                             ret |-> TRUE]
            ELSE IF ~int_parses(device)
            THEN /\ engine' = engine
                 /\ call' = [op |-> "switch_device", args |-> device,
                             ret |-> FALSE]
            ELSE /\ engine' = [engine EXCEPT !.current_device =
                                   IF is_gpu_available(int_of(device))
                                   THEN device ELSE "cpu"]
                 /\ call' = [op |-> "switch_device", args |-> device,
                             ret |-> TRUE]
       ELSE /\ engine' = engine
            /\ call' = [op |-> "switch_device", args |-> device,
                        ret |-> FALSE]
    /\ UNCHANGED <<host, gpu_task, available_gpus, memory_pools,
                   optimal_batch_sizes, batch_calls, memory_context>>
    /\ UNCHANGED scheduler_side

\* a return statement of BatchOCREngine.process_image_batch: each of the three
\* reads current_device for the device_used of the BatchOCRResult
process_image_batch_return ==
    /\ call' = [op |-> "process_image_batch", args |-> "images",
                ret |-> [device_used |-> engine.current_device]]
    /\ UNCHANGED <<gpu_side, event_loop>>
    /\ UNCHANGED scheduler_side

\* an engine with either gpu flag, next to a GPU manager on a host with or
\* without torch and CUDA
InitDevice ==
    /\ OCRScheduler(DefaultMaxConcurrent)
    /\ call = NoOp
    /\ GPUManager
    /\ TORCH_AVAILABLE \in BOOLEAN
    /\ EASYOCR_AVAILABLE = TRUE
    /\ \E config_gpu \in BOOLEAN : BatchOCREngine(config_gpu)

NextDevice ==
    \/ initialize_gpu_environment
    \/ \E probe \in Probes({4096}, MemoryUsed) : collect_gpu_info(probe)
    \/ engine_initialize
    \/ \E device \in DeviceArgs : switch_device(device)
    \/ process_image_batch_return

SpecDevice == InitDevice /\ [][NextDevice]_vars

\* An OCRResult; text is the list of its words, so that " ".join of texts is
\* the concatenation of the lists, and bbox is (x1, y1, x2, y2)
OCRResult(text, confidence, bbox, processing_time) ==
    [text |-> text, confidence |-> confidence, bbox |-> bbox,
     processing_time |-> processing_time]

RECURSIVE SumOf(_, _)
\* sum([f(r) for r in group]) for a field f
SumOf(group, field) ==
    IF group = <<>> THEN 0
    ELSE group[1][field] + SumOf(Tail(group), field)

RECURSIVE JoinTexts(_)
\* " ".join([r.text for r in group]), as a list of words
JoinTexts(group) ==
    IF group = <<>> THEN <<>>
    ELSE group[1].text \o JoinTexts(Tail(group))

\* min([r.bbox[k] for r in group]) and the max alike; k counts from 1
MinBox(group, k) ==
    CHOOSE v \in {group[i].bbox[k] : i \in 1..Len(group)} :
        \A i \in 1..Len(group) : v <= group[i].bbox[k]
MaxBox(group, k) ==
    CHOOSE v \in {group[i].bbox[k] : i \in 1..Len(group)} :
        \A i \in 1..Len(group) : v >= group[i].bbox[k]

\* BatchOCREngine._merge_text_group; the confidences of the inputs are chosen
\* so that every mean taken is a whole number
merge_text_group(group) ==
    OCRResult(JoinTexts(group),
              SumOf(group, "confidence") \div Len(group),
              <<MinBox(group, 1), MinBox(group, 2),
                MaxBox(group, 3), MaxBox(group, 4)>>,
              SumOf(group, "processing_time"))

MaxYDiff == 20
MaxXGap == 50

\* the adjacency test of lines 459-462 between the last result of the current
\* group and the next result
is_adjacent(last_in_group, current) ==
    LET d == current.bbox[2] - last_in_group.bbox[2]
        y_diff == IF d >= 0 THEN d ELSE -d
        x_gap == current.bbox[1] - last_in_group.bbox[3]
    IN  y_diff < MaxYDiff /\ 0 <= x_gap /\ x_gap < MaxXGap

\* lines 466-469 and 475-478: what a finished group adds to merged_results
close_group(current_group) ==
    IF Len(current_group) > 1
    THEN <<merge_text_group(current_group)>>
    ELSE current_group

RECURSIVE merge_loop(_, _, _, _)
\* the for loop of _merge_adjacent_text from index i on, and the handling of
\* the last group after it
merge_loop(results, i, current_group, merged_results) ==
    IF i > Len(results)
    THEN merged_results \o close_group(current_group)
    ELSE IF is_adjacent(current_group[Len(current_group)], results[i])
    THEN merge_loop(results, i + 1, Append(current_group, results[i]),
                    merged_results)
    ELSE merge_loop(results, i + 1, <<results[i]>>,
                    merged_results \o close_group(current_group))

\* BatchOCREngine._merge_adjacent_text
merge_adjacent_text(results) ==
    IF Len(results) <= 1
    THEN results
    ELSE merge_loop(results, 2, <<results[1]>>, <<>>)

\* The postprocessing step "merge_text" of _apply_postprocessing, applied to
\* the results _postprocess_batch holds: the results it was called with or,
\* when the configured list names the step again, those of the step before
apply_merge_text ==
    /\ call.op \in {"postprocess_batch", "merge_adjacent_text"}
    /\ LET results == IF call.op = "postprocess_batch"
                      THEN call.args ELSE call.ret
       IN  call' = [op |-> "merge_adjacent_text", args |-> results,
                    ret |-> merge_adjacent_text(results)]
    /\ UNCHANGED <<gpu_side, event_loop>>
    /\ UNCHANGED scheduler_side

\* The result lists of the merge specification: up to MaxResults results, the
\* i-th with the one word i, boxes 20 wide and 10 high at four columns and
\* three rows, and two confidences (in percent)
BoxLefts == {0, 20, 40, 100}
BoxTops == {0, 1, 20}
Confidences == {60, 96}

ResultLists ==
    LET shapes == [x1 : BoxLefts, y1 : BoxTops, confidence : Confidences]
        lists == UNION {[1..n -> shapes] : n \in 0..MaxResults}
    IN  {[i \in 1..Len(l) |->
             OCRResult(<<i>>, l[i].confidence,
                       <<l[i].x1, l[i].y1, l[i].x1 + 20, l[i].y1 + 10>>, 1)] :
         l \in lists}

\* an engine whose _postprocess_batch was called with any of those lists
InitMerge ==
    /\ OCRScheduler(DefaultMaxConcurrent)
    /\ GPUManager
    /\ TORCH_AVAILABLE = TRUE
    /\ EASYOCR_AVAILABLE = TRUE
    /\ BatchOCREngine(TRUE)
    /\ \E results \in ResultLists :
           call = [op |-> "postprocess_batch", args |-> results]

NextMerge == apply_merge_text

SpecMerge == InitMerge /\ [][NextMerge]_vars

\* ------------------------------------------------ batch engine: processing
MaxImages == 2

\* OCRConfig.batch_size and OCRConfig.confidence_threshold (in percent)
ConfigBatchSize == 8
ConfidenceThreshold == 50

\* the image size _get_optimal_batch_size assumes
EstimatedSize == <<640, 480>>

\* what easyocr.Reader(languages, gpu=use_gpu) constructs
Reader(use_gpu) == IF use_gpu THEN "Reader(gpu=True)" ELSE "Reader(gpu=False)"

\* BatchOCREngine._get_ocr_reader with use_gpu given: the engine afterwards,
\* the reader returned (None when EasyOCR is missing or the constructor
\* raised, which the except clause logs) and whether the call raised, which
\* it never does.  constructs tells whether easyocr.Reader returns.
get_ocr_reader(e, use_gpu, constructs) ==
    IF ~EASYOCR_AVAILABLE
    THEN [engine |-> e, reader |-> None, raised |-> FALSE]
    ELSE IF use_gpu /\ e.gpu_reader = None
    THEN IF constructs
         THEN [engine |-> [e EXCEPT !.gpu_reader = Reader(TRUE)],
               reader |-> Reader(TRUE), raised |-> FALSE]
         ELSE [engine |-> e, reader |-> None, raised |-> FALSE]
    ELSE IF ~use_gpu /\ e.cpu_reader = None
    THEN IF constructs
         THEN [engine |-> [e EXCEPT !.cpu_reader = Reader(FALSE)],
               reader |-> Reader(FALSE), raised |-> FALSE]
         ELSE [engine |-> e, reader |-> None, raised |-> FALSE]
    ELSE [engine |-> e,
          reader |-> IF use_gpu THEN e.gpu_reader ELSE e.cpu_reader,
          raised |-> FALSE]

\* lines 381-393 of _ocr_batch_worker: one (bbox, text, confidence) of
\* reader.readtext becomes an OCRResult; bbox is the list of corner points,
\* and text.strip() leaves the words of the text as they are
convert_detection(d, processing_time) ==
    LET x_coords == {d.bbox[k][1] : k \in 1..Len(d.bbox)}
        y_coords == {d.bbox[k][2] : k \in 1..Len(d.bbox)}
        least(s) == CHOOSE v \in s : \A w \in s : v <= w
        most(s) == CHOOSE v \in s : \A w \in s : v >= w
    IN  OCRResult(d.text, d.confidence,
                  <<least(x_coords), least(y_coords),
                    most(x_coords), most(y_coords)>>,
                  processing_time)

RECURSIVE convert_results(_, _)
\* the for loop of lines 379-393 over the detections of one image, from k on
convert_results(ocr_results, k) ==
    IF k > Len(ocr_results) THEN <<>>
    ELSE (IF ocr_results[k].confidence >= ConfidenceThreshold
          THEN <<convert_detection(ocr_results[k], 1)>>
          ELSE <<>>) \o convert_results(ocr_results, k + 1)

RECURSIVE read_batch(_, _)
\* the for loop of lines 372-397 over the images of a batch, from image i on;
\* an image whose readtext raises is logged and skipped
read_batch(batch, i) ==
    IF i > Len(batch) THEN <<>>
    ELSE (IF batch[i].raises THEN <<>>
          ELSE convert_results(batch[i].ocr_results, 1))
         \o read_batch(batch, i + 1)

\* BatchOCREngine._ocr_batch_worker: the engine afterwards, the results and
\* whether the call raised
ocr_batch_worker(e, batch, use_gpu, constructs) ==
    LET got == get_ocr_reader(e, use_gpu, constructs) IN
    IF got.raised
    THEN [engine |-> got.engine, results |-> <<>>, raised |-> TRUE]
    ELSE [engine |-> got.engine,
          results |-> IF got.reader = None THEN <<>>
                      ELSE read_batch(batch, 1),
          raised |-> FALSE]

\* BatchOCREngine._ocr_batch_sync: the worker run in the executor; whatever
\* the worker raises is logged and an empty list returned
ocr_batch_sync(e, batch, use_gpu, constructs) ==
    LET run == ocr_batch_worker(e, batch, use_gpu, constructs) IN
    [engine |-> run.engine,
     results |-> IF run.raised THEN <<>> ELSE run.results]

\* BatchOCREngine._process_single_batch.  On a cuda device with a manager the
\* worker runs inside gpu_memory_context; context_raises tells whether the
\* with statement raised on the way out (a torch call of the exit cleanup
\* raising), which replaces the return value and is caught by the except
\* clause: it logs and returns an empty list.
process_single_batch(e, batch, constructs, context_raises) ==
    LET use_gpu == startswith_cuda(e.current_device)
        run == ocr_batch_sync(e, batch, use_gpu, constructs)
    IN  IF use_gpu /\ e.gpu_manager # None /\ context_raises
        THEN [engine |-> run.engine, results |-> <<>>]
        ELSE run

\* BatchOCREngine._get_optimal_batch_size, for total_images > 0; the value of
\* GPUManager.get_optimal_batch_size is the one it computes for the key
engine_optimal_batch_size(e, total_images) ==
    IF e.gpu_manager # None /\ startswith_cuda(e.current_device)
    THEN Min(Min(calculate_optimal_batch_size("easyocr", EstimatedSize,
                                              int_of(e.current_device)),
                 total_images),
             ConfigBatchSize)
    ELSE Min(ConfigBatchSize, total_images)

\* _preprocess_batch: the images _preprocess_batch_sync could load
preprocess_batch(images) == SelectSeq(images, LAMBDA img : img.loads)

RECURSIVE process_batches(_, _, _, _, _)
\* the for loop of lines 195-202 from offset i (counted from 1) on: the
\* engine afterwards and all_results
process_batches(e, processed_images, i, optimal_batch_size, outcome) ==
    IF i > Len(processed_images)
    THEN [engine |-> e, results |-> <<>>]
    ELSE LET batch == SubSeq(processed_images, i,
                             Min(i + optimal_batch_size - 1,
                                 Len(processed_images)))
             first == process_single_batch(e, batch, outcome.constructs,
                                           outcome.context_raises)
             rest == process_batches(first.engine, processed_images,
                                     i + optimal_batch_size,
                                     optimal_batch_size, outcome)
         IN  [engine |-> rest.engine, results |-> first.results \o rest.results]

\* _postprocess_batch with the default steps filter_confidence and merge_text
postprocess_batch(results) ==
    merge_adjacent_text(
        SelectSeq(results, LAMBDA r : r.confidence >= ConfidenceThreshold))

\* the float a / b, kept as a fraction; confidences are in percent
Quotient(a, b) == [numerator |-> a, denominator |-> b]

\* a BatchOCRResult, without its processing time
BatchOCRResult(results, batch_size, average_confidence, device_used) ==
    [results |-> results, batch_size |-> batch_size,
     average_confidence |-> average_confidence,
     device_used |-> device_used]

\* BatchOCREngine.process_image_batch for a list of images, of which each
\* tells what loading it and reader.readtext do with it, and for an outcome
\* of the reader constructor and of the memory context: the engine
\* afterwards, whether the call raised, and the BatchOCRResult it returned.
\* No exception leaves the four layers below it, and the except clause of
\* line 221 would turn any other into an empty BatchOCRResult.
process_image_batch(e, images, outcome) ==
    IF images = <<>>
    THEN [engine |-> e, raised |-> FALSE,
          result |-> BatchOCRResult(<<>>, 0, Quotient(0, 1),
                                    e.current_device)]
    ELSE LET optimal_batch_size == engine_optimal_batch_size(e, Len(images))
             run == process_batches(e, preprocess_batch(images), 1,
                                    optimal_batch_size, outcome)
             total_confidence == SumOf(run.results, "confidence")
             final_results == postprocess_batch(run.results)
             average_confidence ==
                 IF final_results # <<>>
                 THEN Quotient(total_confidence, Len(final_results))
                 ELSE Quotient(0, 1)
         IN  [engine |-> run.engine, raised |-> FALSE,
              result |-> BatchOCRResult(final_results, Len(images),
                                        average_confidence, e.current_device)]

\* a call of process_image_batch on the engine, recorded with its outcome
call_process_image_batch(images, outcome) ==
    /\ LET run == process_image_batch(engine, images, outcome) IN
       /\ engine' = run.engine
       /\ call' = [op |-> "process_image_batch",
                   args |-> [images |-> images, outcome |-> outcome],
                   ret |-> [raised |-> run.raised, result |-> run.result]]
    /\ UNCHANGED <<host, gpu_task, available_gpus, memory_pools,
                   optimal_batch_sizes, batch_calls, memory_context>>
    /\ UNCHANGED scheduler_side

\* one detection of confidence c (in percent) at the box (0, 0)-(20, 10)
Detection(c) ==
    [bbox |-> <<<<0, 0>>, <<20, 0>>, <<20, 10>>, <<0, 10>>>>,
     text |-> <<1>>, confidence |-> c]

\* one detection of confidence c at a box of the same size on the same
\* line, from x on
DetectionAt(x, c) ==
    [bbox |-> <<<<x, 0>>, <<x + 20, 0>>, <<x + 20, 10>>, <<x, 10>>>>,
     text |-> <<2>>, confidence |-> c]

\* the images of the processing specification: one that cannot be loaded, one
\* whose readtext raises, one without text, one with a detection below or
\* above the confidence threshold, and one with two words next to each other
Images ==
    {[loads |-> FALSE, raises |-> FALSE, ocr_results |-> <<>>],
     [loads |-> TRUE, raises |-> TRUE, ocr_results |-> <<>>],
     [loads |-> TRUE, raises |-> FALSE, ocr_results |-> <<>>],
     [loads |-> TRUE, raises |-> FALSE, ocr_results |-> <<Detection(40)>>],
     [loads |-> TRUE, raises |-> FALSE, ocr_results |-> <<Detection(96)>>],
     [loads |-> TRUE, raises |-> FALSE,
      ocr_results |-> <<Detection(96), DetectionAt(30, 60)>>]}

ImageLists == UNION {[1..n -> Images] : n \in 0..MaxImages}

Outcomes == [constructs : BOOLEAN, context_raises : BOOLEAN]

\* an engine on a host with or without EasyOCR, next to a GPU manager
InitEngine ==
    /\ OCRScheduler(DefaultMaxConcurrent)
    /\ call = NoOp
    /\ GPUManager
    /\ TORCH_AVAILABLE = TRUE
    /\ EASYOCR_AVAILABLE \in BOOLEAN
    /\ BatchOCREngine(TRUE)

NextEngine ==
    \/ initialize_gpu_environment
    \/ \E probe \in Probes({4096}, {0}) : collect_gpu_info(probe)
    \/ engine_initialize
    \/ \E images \in ImageLists, outcome \in Outcomes :
           call_process_image_batch(images, outcome)

SpecEngine == InitEngine /\ [][NextEngine]_vars

\* ------------------------------------------ batch engine: worker threads
\* max_workers of the engine's ThreadPoolExecutor
ExecutorWorkers == 4

\* the tests of lines 157 and 164 of _get_ocr_reader
reader_unset(e, use_gpu) ==
    (IF use_gpu THEN e.gpu_reader ELSE e.cpu_reader) = None

\* _ocr_batch_sync hands _ocr_batch_worker to the executor (lines 352-356)
\* for the device _process_single_batch found (line 334); a free worker
\* thread starts it
worker_submitted ==
    /\ Len(engine.executor) < ExecutorWorkers
    /\ engine' = [engine EXCEPT !.executor =
           Append(@, [use_gpu |-> startswith_cuda(engine.current_device),
                      pc |-> "get_reader", reader |-> None])]
    /\ call' = NoOp
    /\ UNCHANGED <<host, gpu_task, available_gpus, memory_pools,
                   optimal_batch_sizes, batch_calls, memory_context>>
    /\ UNCHANGED scheduler_side

\* worker thread i in _get_ocr_reader up to the constructor call: without
\* EasyOCR it has no reader, with the reader set it has that one, and else it
\* enters easyocr.Reader(...)
worker_get_ocr_reader(i) ==
    /\ i \in 1..Len(engine.executor)
    /\ engine.executor[i].pc = "get_reader"
    /\ LET use_gpu == engine.executor[i].use_gpu IN
       engine' = [engine EXCEPT !.executor[i] =
           IF ~EASYOCR_AVAILABLE
           THEN [@ EXCEPT !.pc = "reading"]
           ELSE IF reader_unset(engine, use_gpu)
           THEN [@ EXCEPT !.pc = "constructing"]
           ELSE [@ EXCEPT !.pc = "reading",
                          !.reader = IF use_gpu THEN engine.gpu_reader
                                     ELSE engine.cpu_reader]]
    /\ call' = NoOp
    /\ UNCHANGED <<host, gpu_task, available_gpus, memory_pools,
                   optimal_batch_sizes, batch_calls, memory_context>>
    /\ UNCHANGED scheduler_side

\* easyocr.Reader(...) returns in worker thread i and the reader is assigned
\* (lines 158-161, 165-168), or it raises and the except clause returns None
worker_reader_constructed(i, constructs) ==
    /\ i \in 1..Len(engine.executor)
    /\ engine.executor[i].pc = "constructing"
    /\ LET use_gpu == engine.executor[i].use_gpu IN
       IF constructs
       THEN /\ engine' =
                   [engine EXCEPT
                       !.gpu_reader = IF use_gpu THEN Reader(TRUE) ELSE @,
                       !.cpu_reader = IF use_gpu THEN @ ELSE Reader(FALSE),
                       !.executor[i] = [@ EXCEPT !.pc = "reading",
                                                 !.reader = Reader(use_gpu)]]
            /\ call' = [op |-> "easyocr.Reader", args |-> use_gpu]
       ELSE /\ engine' = [engine EXCEPT !.executor[i].pc = "reading"]
            /\ call' = NoOp
    /\ UNCHANGED <<host, gpu_task, available_gpus, memory_pools,
                   optimal_batch_sizes, batch_calls, memory_context>>
    /\ UNCHANGED scheduler_side

\* worker thread i reads its batch with the reader it has, or logs that it
\* has none, and _ocr_batch_worker returns (lines 367-404)
worker_return(i) ==
    /\ i \in 1..Len(engine.executor)
    /\ engine.executor[i].pc = "reading"
    /\ engine' = [engine EXCEPT !.executor = RemoveAt(@, i)]
    /\ call' = NoOp
    /\ UNCHANGED <<host, gpu_task, available_gpus, memory_pools,
                   optimal_batch_sizes, batch_calls, memory_context>>
    /\ UNCHANGED scheduler_side

\* sub-batches of concurrently running jobs on the engine's executor, on a
\* host with or without EasyOCR and with or without a GPU
NextWorkers ==
    \/ initialize_gpu_environment
    \/ \E probe \in Probes({4096}, {0}) : collect_gpu_info(probe)
    \/ engine_initialize
    \/ worker_submitted
    \/ \E i \in 1..ExecutorWorkers : worker_get_ocr_reader(i)
    \/ \E i \in 1..ExecutorWorkers, constructs \in BOOLEAN :
           worker_reader_constructed(i, constructs)
    \/ \E i \in 1..ExecutorWorkers : worker_return(i)

SpecWorkers == InitEngine /\ [][NextWorkers]_vars

\* ------------------------------------------- scheduler with its engine
\* what job.result holds of a BatchOCRResult: whether it carries any results
job_result(batch_result) ==
    IF batch_result.results = <<>> THEN "empty result" ELSE "result"

\* _process_job resumed by process_image_batch (line 355) for the images of
\* the job, of which each tells what loading and reading it does, and for an
\* outcome of the reader constructor.  A call that raised would take the task
\* to the except clause of line 385; one that returned goes on at line 356.
process_image_batch_done(job, images, outcome) ==
    LET run == process_image_batch(engine, images, outcome) IN
    /\ job \in 1..Len(task)
    /\ Len(images) = jobs[job].images
    /\ engine' = run.engine
    /\ call' = [op |-> "process_image_batch",
                args |-> [job |-> job, images |-> images, outcome |-> outcome],
                ret |-> [raised |-> run.raised, result |-> run.result]]
    /\ IF run.raised
       THEN /\ Idle
            /\ task[job] = "engine"
            /\ task' = [task EXCEPT ![job] = "calling"]
            /\ last_cancel' = NoCall
            /\ UNCHANGED <<max_concurrent_jobs, jobs, job_queue,
                           processing_jobs, completed_jobs, failed_jobs, stats,
                           batch_ocr_engine, initialized, scheduler_task, clock,
                           attempts, callback_calls, stop_call>>
       ELSE store_result(job, job_result(run.result))
    /\ UNCHANGED <<host, gpu_task, available_gpus, memory_pools,
                   optimal_batch_sizes, batch_calls, memory_context,
                   event_loop>>

\* the images of the jobs: one whose readtext raises and one with a detection
JobImages ==
    {[loads |-> TRUE, raises |-> TRUE, ocr_results |-> <<>>],
     [loads |-> TRUE, raises |-> FALSE, ocr_results |-> <<Detection(96)>>]}

\* Jobs of one image and one priority without callback, on a scheduler whose
\* engine is looked into: its reader is constructed or not, and reads the
\* image or raises
NextInference ==
    \/ submit_job(1, NORMAL, FALSE, 0)
    \/ \E ok \in BOOLEAN : initialize(ok)
    \/ start_scheduler
    \/ scheduler_loop
    \/ \E job \in JobIds : process_job(job)
    \/ \E job \in JobIds : handle_job_failure(job, EngineMissingError)
    \/ \E job \in JobIds, image \in JobImages, constructs \in BOOLEAN :
           process_image_batch_done(
               job, <<image>>,
               [constructs |-> constructs, context_raises |-> FALSE])

SpecInference == Init /\ [][NextInference]_vars

\* ------------------------------------------------- coroutines and locks
\* The instructions of a coroutine that matter for the two locks: async with
\* acquires on entry and releases on every exit of its block, an await of a
\* sleep, of the engine or of a callback suspends the coroutine, and goto
\* stands for the tests and returns in between, which the data decide.
acquire(lock) == [op |-> "acquire", lock |-> lock]
release(lock) == [op |-> "release", lock |-> lock]
await(what) == [op |-> "await", on |-> what]
goto(targets) == [op |-> "goto", to |-> targets]
create_task(code) == [op |-> "create_task", code |-> code]

\* submit_job: lines 200-203
submit_job_code == <<acquire("queue_lock"), release("queue_lock")>>

\* get_job_status: the block of lines 216-219, the returns of lines 219-229,
\* the block of lines 232-235
get_job_status_code ==
    <<acquire("processing_lock"), release("processing_lock"), goto({4, 6}),
      acquire("queue_lock"), release("queue_lock")>>

\* cancel_job: the block of lines 273-281 with its return, the block of
\* lines 284-287
cancel_job_code ==
    <<acquire("queue_lock"), release("queue_lock"), goto({4, 6}),
      acquire("processing_lock"), release("processing_lock")>>

\* get_job_list: the blocks of lines 512-513 and 516-517, each under the test
\* of the status filter
get_job_list_code ==
    <<goto({2, 4}), acquire("queue_lock"), release("queue_lock"),
      goto({5, 7}), acquire("processing_lock"), release("processing_lock")>>

\* _scheduler_loop with _get_next_job: the sleep of line 300, which a
\* cancellation ends, the block of lines 303-304, the continue of line 307,
\* the block of lines 326-334, the continue of line 312 and the create_task
\* of line 315
scheduler_loop_code ==
    <<await("sleep"), goto({3, 11}),
      acquire("processing_lock"), release("processing_lock"), goto({1, 6}),
      acquire("queue_lock"), release("queue_lock"), goto({1, 9}),
      create_task("process_job"), goto({1})>>

\* a _process_job that awaits the callback inside the block that takes the
\* job out of processing_jobs
process_job_code_callback_in_block ==
    <<acquire("processing_lock"), release("processing_lock"),
      await("engine"), goto({5, 10}),
      acquire("processing_lock"), await("callback"),
      release("processing_lock"), goto({16}),
      goto({16}),
      goto({11, 13}),
      acquire("queue_lock"), release("queue_lock"),
      acquire("processing_lock"), release("processing_lock"), goto({16})>>

\* _process_job with _handle_job_failure: the block of lines 344-346, the
\* engine call of line 355, which returns or raises, the callback of lines
\* 369-373, the block of lines 376-378; and from 10 on the except clause:
\* the retry test of line 396, the block of lines 401-403 and the block of
\* lines 416-419
process_job_code ==
    <<acquire("processing_lock"), release("processing_lock"),
      await("engine"), goto({5, 10}),
      goto({6, 7}), await("callback"),
      acquire("processing_lock"), release("processing_lock"),
      goto({16}),
      goto({11, 13}),
      acquire("queue_lock"), release("queue_lock"),
      acquire("processing_lock"), release("processing_lock"), goto({16})>>

\* the instructions of a coroutine function
Code(name) ==
    CASE name = "submit_job" -> submit_job_code
      [] name = "get_job_status" -> get_job_status_code
      [] name = "cancel_job" -> cancel_job_code
      [] name = "get_job_list" -> get_job_list_code
      [] name = "scheduler_loop" -> scheduler_loop_code
      [] name = "process_job" -> process_job_code

\* a coroutine object before its first step
Coroutine(name) == [code |-> name, pc |-> 1, state |-> "created"]

\* the slots of the coroutines that are followed
Slots == 1..MaxCoroutines
FreeSlots == {i \in Slots : event_loop.coroutines[i] = NoCoroutine}

\* the instruction coroutine i is at, or an end when it ran off its code
Instruction(i) ==
    LET c == event_loop.coroutines[i] IN
    IF c.pc > Len(Code(c.code)) THEN [op |-> "end"] ELSE Code(c.code)[c.pc]

\* a step of the coroutines leaves the scheduler's data alone
coroutine_frame ==
    /\ last_cancel' = NoCall
    /\ call' = NoOp
    /\ UNCHANGED <<core, stop_call, gpu_side>>

\* a caller awaits one of the public methods, or start_scheduler creates the
\* loop task (line 145), which exists once
coroutine_created(name) ==
    /\ FreeSlots # {}
    /\ name = "scheduler_loop" =>
           \A i \in Slots \ FreeSlots :
               event_loop.coroutines[i].code # "scheduler_loop"
    /\ LET i == CHOOSE k \in FreeSlots : \A m \in FreeSlots : k <= m IN
       event_loop' = [event_loop EXCEPT !.coroutines[i] = Coroutine(name)]
    /\ coroutine_frame

\* the event loop, with no coroutine running, runs one that is ready: a new
\* one, one whose await is over, or one that waits for a lock that is free
coroutine_resumed(i) ==
    /\ event_loop.running = 0
    /\ i \in Slots \ FreeSlots
    /\ LET c == event_loop.coroutines[i] IN
       \/ c.state \in {"created", "awaiting"}
       \/ c.state = "blocked" /\ event_loop[Instruction(i).lock] = 0
    /\ event_loop' = [event_loop EXCEPT !.running = i,
                                        !.coroutines[i].state = "running"]
    /\ coroutine_frame

\* the running coroutine executes the instruction it is at
coroutine_step ==
    /\ event_loop.running # 0
    /\ LET i == event_loop.running
           c == event_loop.coroutines[i]
           instruction == Instruction(i)
       IN  CASE instruction.op = "acquire" ->
                    IF event_loop[instruction.lock] = 0
                    THEN event_loop' =
                             [event_loop EXCEPT ![instruction.lock] = i,
                                                !.coroutines[i].pc = @ + 1]
                    ELSE event_loop' =
                             [event_loop EXCEPT !.running = 0,
                                                !.coroutines[i].state = "blocked"]
             [] instruction.op = "release" ->
                    event_loop' = [event_loop EXCEPT ![instruction.lock] = 0,
                                                     !.coroutines[i].pc = @ + 1]
             [] instruction.op = "await" ->
                    event_loop' =
                        [event_loop EXCEPT !.running = 0,
                                           !.coroutines[i].state = "awaiting",
                                           !.coroutines[i].pc = @ + 1]
             [] instruction.op = "goto" ->
                    \E target \in instruction.to :
                        event_loop' =
                            [event_loop EXCEPT !.coroutines[i].pc = target]
             [] instruction.op = "create_task" ->
                    IF FreeSlots = {}
                    THEN event_loop' =
                             [event_loop EXCEPT !.coroutines[i].pc = @ + 1]
                    ELSE LET k == CHOOSE f \in FreeSlots :
                                      \A m \in FreeSlots : f <= m
                         IN  event_loop' =
                                 [event_loop EXCEPT
                                     !.coroutines[i].pc = @ + 1,
                                     !.coroutines[k] =
                                         Coroutine(instruction.code)]
             [] instruction.op = "end" ->
                    event_loop' = [event_loop EXCEPT !.running = 0,
                                                     !.coroutines[i] = NoCoroutine]
    /\ coroutine_frame

\* the methods callers await
PublicMethods == {"submit_job", "get_job_status", "cancel_job", "get_job_list"}

\* Callers, the loop task and the job tasks it creates, in every order the
\* event loop can run them
NextLocks ==
    \/ \E name \in PublicMethods \cup {"scheduler_loop"} :
           coroutine_created(name)
    \/ \E i \in Slots : coroutine_resumed(i)
    \/ coroutine_step

SpecLocks == Init /\ [][NextLocks]_vars

\* ----------------------------------------------------------------- claims
\* the step dispatches job a: _get_next_job popped it and its task was created
Dispatched(a) ==
    /\ a \in 1..Len(task)
    /\ task[a] # "spawned"
    /\ task'[a] = "spawned"

Known(j) == j \in 1..Len(jobs)

\* C1: in every reachable state the number of jobs in processing_jobs is at
\* most max_concurrent_jobs.
C1_ConcurrencyBound == Len(processing_jobs) <= max_concurrent_jobs

\* a full pool of two jobs with a third job waiting in the queue
C1_Witness ==
    /\ max_concurrent_jobs = 2
    /\ Len(processing_jobs) = 2
    /\ job_queue # <<>>

\* C2: whenever a job is dispatched, no job left in the queue has a strictly
\* higher priority, whatever submissions, cancellations and retry
\* re-insertions came before.
C2_PriorityOrder ==
    [][\A a \in JobIds : Dispatched(a) =>
          \A b \in Range(job_queue') : jobs[b].priority <= jobs[a].priority]_vars

\* a job that was re-queued by a retry is dispatched ahead of a queued job of
\* lower priority, after another job was cancelled
C2_Witness ==
    \E a, b, c \in 1..Len(jobs) :
        /\ task[a] = "spawned"
        /\ jobs[a].retry_count > 0
        /\ b \in Range(job_queue)
        /\ jobs[b].priority < jobs[a].priority
        /\ jobs[c].status = CANCELLED

\* C3: whenever a job is dispatched, no job of the same priority left in the
\* queue has an earlier created_at, also after cancel_job removed an element
\* of the heap.
C3_FifoWithinPriority ==
    [][\A a \in JobIds : Dispatched(a) =>
          \A b \in Range(job_queue') :
              jobs[b].priority = jobs[a].priority =>
                  jobs[a].created_at <= jobs[b].created_at]_vars

\* after a cancellation a job is dispatched ahead of a later job of its priority
C3_Witness ==
    \E a, b, c \in 1..Len(jobs) :
        /\ task[a] = "spawned"
        /\ b \in Range(job_queue)
        /\ jobs[b].priority = jobs[a].priority
        /\ jobs[a].created_at < jobs[b].created_at
        /\ jobs[c].status = CANCELLED
        /\ jobs[c].priority = jobs[a].priority

\* a job whose retries are used up: it failed more often than max_retries
Exhausted(j) == attempts[j] > jobs[j].max_retries /\ task[j] \in {"none", "done"}

\* C4: every job has retry_count <= max_retries, and a job whose retries are
\* exhausted is Failed with a non-empty error.
C4_RetryCountBounded ==
    \A j \in 1..Len(jobs) :
        /\ jobs[j].retry_count <= jobs[j].max_retries
        /\ Exhausted(j) => jobs[j].status = FAILED /\ jobs[j].error \notin {None, ""}

\* C5: a job that failed on every attempt was executed max_retries + 1 times
\* when it is Failed, no job is executed more often than that, and a job that
\* has failed that often is Failed.
C5_AttemptsUntilFailed ==
    \A j \in 1..Len(jobs) :
        /\ attempts[j] <= jobs[j].max_retries + 1
        /\ jobs[j].status = FAILED =>
               /\ attempts[j] = jobs[j].max_retries + 1
               /\ task[j] = "done"
               /\ j \notin Range(job_queue)
        /\ (batch_ocr_engine = None /\ Exhausted(j)) => jobs[j].status = FAILED

\* a job has failed for good after its fourth attempt
C5_Witness ==
    \E j \in 1..Len(jobs) :
        /\ jobs[j].status = FAILED
        /\ attempts[j] = DefaultMaxRetries + 1
        /\ j \in Range(failed_jobs)

NotCancellable(j) ==
    \/ ~Known(j)
    \/ jobs[j].status \in {PROCESSING, COMPLETED, FAILED, CANCELLED}

\* C6: cancel_job on a job that is Processing, terminal or unknown returns
\* False and changes nothing of the scheduler's state.
C6_CancelRefused ==
    [][\A j \in JobIds : (cancel_job(j) /\ NotCancellable(j)) =>
          (last_cancel' = [called |-> TRUE, ret |-> FALSE] /\ UNCHANGED core)]_vars

\* cancel_job returned False when every job id was that of a Processing,
\* Completed or Cancelled job
C6_Witness ==
    /\ last_cancel = [called |-> TRUE, ret |-> FALSE]
    /\ Len(jobs) = MaxJobs
    /\ \A j \in 1..Len(jobs) : jobs[j].status \in {PROCESSING, COMPLETED, CANCELLED}
    /\ \E j \in 1..Len(jobs) : jobs[j].status = PROCESSING
    /\ \E j \in 1..Len(jobs) : jobs[j].status = COMPLETED
    /\ \E j \in 1..Len(jobs) : jobs[j].status = CANCELLED

\* C7: cancel_job on a Pending or Queued job returns True and sets it to
\* Cancelled, and a Cancelled job stays Cancelled and is never executed.
C7_CancelAccepted ==
    [][/\ \A j \in JobIds :
             (cancel_job(j) /\ Known(j) /\ jobs[j].status \in {PENDING, QUEUED}) =>
                 /\ last_cancel' = [called |-> TRUE, ret |-> TRUE]
                 /\ jobs'[j].status = CANCELLED
       /\ \A j \in 1..Len(jobs) :
             jobs[j].status = CANCELLED =>
                 /\ jobs'[j].status = CANCELLED
                 /\ attempts'[j] = attempts[j]
                 /\ task'[j] = task[j]]_vars

AllowedEdges ==
    {<<PENDING, QUEUED>>, <<QUEUED, PROCESSING>>, <<PROCESSING, COMPLETED>>,
     <<PROCESSING, FAILED>>, <<PROCESSING, PENDING>>, <<PENDING, CANCELLED>>,
     <<QUEUED, CANCELLED>>}

\* C8: a job starts Pending and its status changes only along the edges of
\* the state machine; Completed, Failed and Cancelled are never left.
C8_StatusEdges ==
    [][/\ \A j \in 1..Len(jobs) :
             jobs'[j].status # jobs[j].status =>
                 <<jobs[j].status, jobs'[j].status>> \in AllowedEdges
       /\ \A j \in 1..Len(jobs') :
             j > Len(jobs) => jobs'[j].status = PENDING]_vars

\* one job was retried, one has failed for good and one was cancelled
C8_Witness ==
    \E a, b, c \in 1..Len(jobs) :
        /\ jobs[a].status = PENDING /\ jobs[a].retry_count > 0
        /\ jobs[b].status = FAILED
        /\ jobs[c].status = CANCELLED

\* C9: the callback of a job is invoked at most once, only when the result is
\* stored and the status is Completed; a job with a callback whose task has
\* ended successfully had it invoked exactly once, is Completed and is in
\* completed_jobs, whether the callback returned or raised.
C9_CallbackOnSuccess ==
    \A j \in 1..Len(jobs) :
        /\ callback_calls[j] <= 1
        /\ callback_calls[j] = 1 =>
               /\ jobs[j].callback
               /\ jobs[j].status = COMPLETED
               /\ jobs[j].result # None
        /\ (jobs[j].result # None /\ task[j] \notin {"engine", "callback"}) =>
               /\ jobs[j].status = COMPLETED
               /\ j \in Range(completed_jobs)
               /\ j \notin Range(processing_jobs)
               /\ jobs[j].callback => callback_calls[j] = 1

\* a job with a callback has completed and is stored in completed_jobs
C9_Witness ==
    \E j \in 1..Len(jobs) :
        /\ jobs[j].callback
        /\ callback_calls[j] = 1
        /\ task[j] = "done"
        /\ j \in Range(completed_jobs)

\* C10: a job with a callback that is Failed had its callback invoked exactly
\* once.
C10_CallbackOnFailure ==
    \A j \in 1..Len(jobs) :
        (jobs[j].status = FAILED /\ jobs[j].callback) => callback_calls[j] = 1

\* C11 as stated: every job in a terminal status, Cancelled included, has
\* exactly one of result and error set.
IsTerminal(j) == jobs[j].status \in {COMPLETED, FAILED, CANCELLED}

C11_TerminalExactlyOne ==
    \A j \in 1..Len(jobs) :
        IsTerminal(j) => ((jobs[j].result # None) # (jobs[j].error # None))

\* C11: a Completed job has a result and no error, a Failed job has an error
\* and no result, and a Cancelled job has no result (it has an error only
\* when it was cancelled after a failed attempt).
C11_ResultXorError ==
    \A j \in 1..Len(jobs) :
        /\ jobs[j].status = COMPLETED =>
               jobs[j].result # None /\ jobs[j].error = None
        /\ jobs[j].status = FAILED =>
               jobs[j].error # None /\ jobs[j].result = None
        /\ jobs[j].status = CANCELLED =>
               /\ jobs[j].result = None
               /\ jobs[j].error # None => jobs[j].retry_count > 0

\* a Completed job that carries its result and no error, next to a Cancelled
\* job that carries neither
C11_Witness ==
    \E j, k \in 1..Len(jobs) :
        /\ jobs[j].status = COMPLETED
        /\ jobs[j].result \in EngineResults /\ jobs[j].error = None
        /\ jobs[k].status = CANCELLED
        /\ jobs[k].result = None /\ jobs[k].error = None

\* C12: a submit_job call with an empty image list is rejected: it pushes no
\* job on the queue, creates none and changes no counter.
C12_EmptyInputRejected ==
    [][submit_job(0, NORMAL, FALSE, 0) =>
          /\ job_queue' = job_queue
          /\ stats' = stats
          /\ jobs' = jobs]_vars

\* C13: once the scheduler loop runs with an engine, every submitted job that
\* is not cancelled is eventually Completed and stored in completed_jobs.
Running == scheduler_task = "running" /\ batch_ocr_engine # None

C13_EventuallyCompleted ==
    \A j \in JobIds :
        (Known(j) /\ Running) ~>
            (Known(j) /\ \/ jobs[j].status = COMPLETED /\ j \in Range(completed_jobs)
                         \/ jobs[j].status = CANCELLED)

\* more jobs than slots, all of them completed and stored
C13_Witness ==
    /\ Running
    /\ Len(jobs) = MaxJobs
    /\ max_concurrent_jobs < Len(jobs)
    /\ \A j \in 1..Len(jobs) :
           jobs[j].status = COMPLETED /\ j \in Range(completed_jobs)

C15_BatchSizeInRange ==
    /\ call.op = "get_optimal_batch_size" => call.ret \in 1..MaxBatchSize
    /\ \A model_type \in ModelTypes, input_size \in InputSizes,
          device_id \in DeviceIds :
           calculate_optimal_batch_size(model_type, input_size, device_id)
               \in 1..MaxBatchSize

\* a call that calculated the upper limit for a device with a large pool,
\* after a call for a device without pool had left the lower limit in the cache
C15_Witness ==
    /\ call.op = "get_optimal_batch_size"
    /\ call.ret = MaxBatchSize
    /\ ~call.cached
    /\ \E k \in DOMAIN optimal_batch_sizes :
           /\ k[3] \notin DOMAIN memory_pools
           /\ optimal_batch_sizes[k] = 1

\* C16: for a fixed memory pool the calculated batch size does not grow when
\* the per-image estimate grows.
C16_MonotoneInEstimate ==
    \A device_id \in DeviceIds, s1 \in InputSizes, s2 \in InputSizes :
        per_image_memory(s1) <= per_image_memory(s2) =>
            calculate_optimal_batch_size("easyocr", s1, device_id)
                >= calculate_optimal_batch_size("easyocr", s2, device_id)

\* a pool on which the larger estimate gives a strictly smaller batch, next to
\* a pool too small for the model, where every estimate gives 1
C16_Witness ==
    /\ \E d \in DOMAIN memory_pools, s1 \in InputSizes, s2 \in InputSizes :
           /\ per_image_memory(s1) < per_image_memory(s2)
           /\ calculate_optimal_batch_size("easyocr", s1, d)
                  > calculate_optimal_batch_size("easyocr", s2, d)
           /\ calculate_optimal_batch_size("easyocr", s2, d) > 1
    /\ \E d \in DOMAIN memory_pools :
           max_usable_memory(memory_pools[d]) - BaseMemory < 0

\* C17: get_recommended_device returns -1 exactly when no GPU of the list is
\* available (the empty list included), and otherwise the id of an available
\* GPU whose memory_used is the least among the available ones.
AvailableIndexes == {i \in 1..Len(available_gpus) : available_gpus[i].is_available}

C17_RecommendedDevice ==
    call.op = "get_recommended_device" =>
        /\ call.ret = -1 <=> AvailableIndexes = {}
        /\ call.ret # -1 =>
               \E i \in AvailableIndexes :
                   /\ available_gpus[i].id = call.ret
                   /\ \A j \in AvailableIndexes :
                          available_gpus[i].memory_used
                              <= available_gpus[j].memory_used

\* a GPU was recommended although an unavailable one uses less memory
C17_Witness ==
    /\ call.op = "get_recommended_device"
    /\ call.ret # -1
    /\ \E i, j \in 1..Len(available_gpus) :
           /\ available_gpus[i].id = call.ret
           /\ ~available_gpus[j].is_available
           /\ available_gpus[j].memory_used < available_gpus[i].memory_used

\* C18: current_device is always "cpu" or the name of a GPU that is in the
\* manager's list and available; a switch_device call for a cuda name whose
\* GPU is not such a one leaves "cpu" and returns True; and with an empty
\* GPU list current_device is "cpu" and process_image_batch reports "cpu".
ReportedAvailable(device) ==
    \E i \in 1..Len(available_gpus) :
        /\ available_gpus[i].is_available
        /\ device = cuda_device(available_gpus[i].id)

C18_DeviceIsCpuOrAvailable ==
    /\ engine.current_device = "cpu" \/ ReportedAvailable(engine.current_device)
    /\ (/\ call.op = "switch_device"
        /\ int_parses(call.args)
        /\ ~ReportedAvailable(call.args)) =>
           engine.current_device = "cpu" /\ call.ret = TRUE
    /\ available_gpus = <<>> =>
           /\ engine.current_device = "cpu"
           /\ call.op = "process_image_batch" => call.ret.device_used = "cpu"

\* C19: when a gpu_memory_context for a device with a pool, entered after its
\* entry cleanup, is left, the cache has been cleared again, whether the body
\* ended normally or raised, and what the with statement raises is the
\* exception of the body, or nothing when the body raised nothing.
C19_CleanupOnEveryExit ==
    (memory_context.phase = "exited" /\ memory_context.yield = "pool") =>
        /\ memory_context.cache_cleared
        /\ memory_context.raised =
               IF memory_context.body_raised THEN "body exception" ELSE None

\* C20: _merge_adjacent_text keeps the order of the results (the words of its
\* output, read in order, are the words of its input) and is idempotent
\* (merging its output again gives the same list).
C20_MergeOrderedIdempotent ==
    call.op = "merge_adjacent_text" =>
        /\ JoinTexts(call.ret) = JoinTexts(call.args)
        /\ merge_adjacent_text(call.ret) = call.ret

\* the last step was a process_image_batch call that reached the worker and
\* found no reader: EasyOCR is missing or the constructor raised
ReaderFailed ==
    /\ call.op = "process_image_batch"
    /\ preprocess_batch(call.args.images) # <<>>
    /\ IF startswith_cuda(engine.current_device)
       THEN engine.gpu_reader = None
       ELSE engine.cpu_reader = None

\* C21: when no reader can be had, process_image_batch raises to its caller
\* and does not return a BatchOCRResult
C21_ReaderFailureSurfaces == ReaderFailed => call.ret.raised

\* the step is the return of an engine call in which the reader was there
\* and reader.readtext raised for every image of job j
InferenceRaised(j) ==
    /\ call'.op = "process_image_batch"
    /\ call'.args.job = j
    /\ IF startswith_cuda(engine'.current_device)
       THEN engine'.gpu_reader # None
       ELSE engine'.cpu_reader # None
    /\ \A i \in 1..Len(call'.args.images) : call'.args.images[i].raises

\* C22: an attempt whose inference raised is never marked Completed: the job
\* goes back to Pending, or to Failed once its retries are used up
C22_InferenceErrorNotCompleted ==
    [][\A j \in JobIds :
          InferenceRaised(j) =>
              /\ jobs'[j].status # COMPLETED
              /\ jobs'[j].status \in {PENDING, FAILED}]_vars

\* the step ends a failed attempt of job j: _handle_job_failure ran for it,
\* or its callback raised
FailedAttempt(j) ==
    \/ handle_job_failure(j, EngineMissingError)
    \/ callback_return(j, TRUE)

\* C23: a failed attempt of a job, retried or exhausted, and a raising
\* callback leave the scheduler loop running as it was and the job out of
\* processing_jobs, so that a slot is free for the next queued job
C23_FailureReleasesSlot ==
    [][\A j \in JobIds :
          FailedAttempt(j) =>
              /\ scheduler_task' = scheduler_task
              /\ j \notin Range(processing_jobs')
              /\ Len(processing_jobs') < max_concurrent_jobs]_vars

\* a job was retried and another one exhausted its retries, both are out of
\* processing_jobs, and a third job was dispatched by the running loop
C23_Witness ==
    /\ scheduler_task = "running"
    /\ \E j, k, l \in 1..Len(jobs) :
           /\ jobs[j].status = FAILED
           /\ jobs[k].status = PENDING /\ jobs[k].retry_count > 0
           /\ jobs[l].status = PROCESSING
           /\ Range(processing_jobs) = {l}

\* stop_scheduler cancelled the scheduler task, and no loop was started since
Stopped == stop_call.cancelled /\ scheduler_task # "running"

\* the step pops job j from the queue
Popped(j) == j \in Range(job_queue) /\ jobs'[j].status = QUEUED

\* the step moves job j to Processing
MovedToProcessing(j) ==
    jobs[j].status # PROCESSING /\ jobs'[j].status = PROCESSING

\* C24 as stated: once stop_scheduler has cancelled the scheduler task, no job
\* is popped from the queue and no job is moved to Processing
C24_NoDispatchAfterStop ==
    [][Stopped =>
          \A j \in 1..Len(jobs) : ~Popped(j) /\ ~MovedToProcessing(j)]_vars

\* C24, amended: once stop_scheduler has cancelled the scheduler task, and
\* until a loop is started again, no job is popped from the queue, so every
\* job in it stays there, and the only jobs still moved to Processing are
\* those popped before, whose task was created but had not started
C24_NoPopAfterStop ==
    [][Stopped =>
          \A j \in 1..Len(jobs) :
              /\ ~Popped(j)
              /\ j \in Range(job_queue) => j \in Range(job_queue')
              /\ MovedToProcessing(j) =>
                     jobs[j].status = QUEUED /\ task[j] = "spawned"]_vars

\* stop_scheduler has cancelled the task and returned; a job that failed an
\* attempt and was re-queued and a job never dispatched are in the queue
C24_Witness ==
    /\ Stopped
    /\ stop_call.phase = "returned"
    /\ \E j, k \in Range(job_queue) :
           /\ jobs[j].retry_count > 0 /\ jobs[j].status = PENDING
           /\ jobs[k].retry_count = 0 /\ jobs[k].status = PENDING

\* a stop_scheduler call is suspended, awaiting the cancelled tasks or asleep
\* in _wait_for_completion
Stopping == stop_call.phase \in {"tasks", "waiting"}

\* C25: every stop_scheduler call returns, after at most DrainTimeout seconds
\* of waiting even if the jobs in flight never finish, and neither its wait
\* nor its return takes a job out of processing_jobs or changes one
C25_StopTerminates ==
    /\ Stopping ~> stop_call.phase = "returned"
    /\ [](stop_call.waited <= DrainTimeout)
    /\ [][stop_call'.phase = "returned" /\ stop_call.phase # "returned" =>
              UNCHANGED <<processing_jobs, jobs, stats>>]_vars
    /\ [][wait_for_completion =>
              UNCHANGED <<processing_jobs, jobs, stats>>]_vars

\* stop_scheduler returned on the timeout with a job still in processing_jobs
C25_Witness ==
    /\ stop_call.phase = "returned"
    /\ stop_call.waited = DrainTimeout
    /\ \E j \in Range(processing_jobs) : task[j] = "engine"

\* the job ids of the views of a list
ViewIds(views) == {views[i].job_dict.job_id : i \in 1..Len(views)}

\* C26: get_job_list returns at most limit views, newest first; with a status
\* filter every view has that status, and without one the views are those of
\* jobs in the queue, in processing_jobs, in completed_jobs or in failed_jobs
C26_JobList ==
    call.op = "get_job_list" =>
        LET views == call.ret IN
        /\ Len(views) <= call.args.limit
        /\ \A i, k \in 1..Len(views) :
               i < k =>
                   views[i].job_dict.created_at >= views[k].job_dict.created_at
        /\ call.args.status # None =>
               \A i \in 1..Len(views) :
                   views[i].job_dict.status = call.args.status
        /\ call.args.status = None =>
               /\ ViewIds(views) \subseteq
                      Range(job_queue) \cup Range(processing_jobs)
                          \cup Range(completed_jobs) \cup Range(failed_jobs)
               /\ \A store \in {job_queue, processing_jobs, completed_jobs,
                                 failed_jobs} :
                      Len(store) = 1 /\ Len(jobs) = 1 /\ call.args.limit > 0
                          => ViewIds(views) = Range(store)

\* C27: one iteration of the scheduler loop dispatches as many jobs as there
\* are free slots, or all queued jobs when those are fewer
C27_TickFillsFreeSlots ==
    [][scheduler_loop =>
          Len(job_queue) - Len(job_queue') =
              Min(max_concurrent_jobs - Len(processing_jobs),
                  Len(job_queue))]_vars

\* after the step job j is Pending and in the queue again
Requeued(j) ==
    /\ jobs'[j].status = PENDING
    /\ j \in Range(job_queue')
    /\ j \notin Range(failed_jobs')

\* after the step job j is Failed and stored in failed_jobs
GaveUp(j) ==
    /\ jobs'[j].status = FAILED
    /\ j \notin Range(job_queue')
    /\ j \in Range(failed_jobs')

\* C28 as stated: a failed attempt adds one to retry_count, and the job is
\* re-queued as Pending exactly if the new retry_count is below max_retries,
\* and Failed otherwise
C28_RetryIffBelowMax ==
    [][\A j \in JobIds :
          handle_job_failure(j, EngineMissingError) =>
              /\ jobs'[j].retry_count = jobs[j].retry_count + 1
              /\ IF jobs'[j].retry_count < jobs[j].max_retries
                 THEN Requeued(j) ELSE GaveUp(j)]_vars

\* C28, amended: a failed attempt adds one to retry_count, and the job is
\* re-queued as Pending exactly if the new retry_count is at most max_retries,
\* that is if the count before the attempt was below max_retries, and Failed
\* otherwise
C28_RetryIffAtMostMax ==
    [][\A j \in JobIds :
          handle_job_failure(j, EngineMissingError) =>
              /\ jobs'[j].retry_count = jobs[j].retry_count + 1
              /\ IF jobs'[j].retry_count <= jobs[j].max_retries
                 THEN Requeued(j) ELSE GaveUp(j)]_vars

\* a job was re-queued by the failure that made retry_count equal max_retries,
\* and another job gave up at the failure after that
C28_Witness ==
    \E j, k \in 1..Len(jobs) :
        /\ jobs[j].status = PENDING
        /\ jobs[j].retry_count = jobs[j].max_retries
        /\ j \in Range(job_queue)
        /\ jobs[k].status = FAILED
        /\ jobs[k].retry_count = jobs[k].max_retries + 1

Stored == Range(completed_jobs) \cup Range(failed_jobs)

\* C30: a cleanup_old_jobs call takes out of completed_jobs and failed_jobs
\* exactly the jobs whose completed_at lies before the cutoff, all of them
\* Completed or Failed, keeps the order of the others, and changes neither
\* the queue nor processing_jobs nor a field of any job
C30_CleanupEvictsOnlyOld ==
    [][call'.op = "cleanup_old_jobs" =>
          /\ \A j \in Stored :
                 /\ jobs[j].status \in {COMPLETED, FAILED}
                 /\ jobs[j].completed_at # NoTime
          /\ Range(completed_jobs') =
                 {j \in Range(completed_jobs) :
                      jobs[j].completed_at >= call'.cutoff_time}
          /\ Range(failed_jobs') =
                 {j \in Range(failed_jobs) :
                      jobs[j].completed_at >= call'.cutoff_time}
          /\ Len(completed_jobs') = Cardinality(Range(completed_jobs'))
          /\ Len(failed_jobs') = Cardinality(Range(failed_jobs'))
          /\ UNCHANGED <<jobs, job_queue, processing_jobs>>]_vars

\* a sweep at a later hour has evicted a job completed before the cutoff and
\* kept one completed at it, while another job is in flight
C30_Witness ==
    /\ call.op = "cleanup_old_jobs"
    /\ processing_jobs # <<>>
    /\ \E j, k \in 1..Len(jobs) :
           /\ jobs[j].status = COMPLETED
           /\ task[j] = "done"
           /\ j \notin Range(completed_jobs)
           /\ jobs[j].completed_at < call.cutoff_time
           /\ k \in Range(completed_jobs)
           /\ jobs[k].completed_at = call.cutoff_time

\* C31: get_job_status called for a job that was submitted returns a view,
\* and the view carries the job's current status
C31_StatusOfEveryJob ==
    call.op = "get_job_status" /\ call.args \in 1..Len(jobs) =>
        /\ call.ret # NotFound
        /\ call.ret.job_dict.status = jobs[call.args].status

\* the usable budget U of a device with a pool, in MB
UsableBudget(d) ==
    ((memory_pools[d].total_memory - memory_pools[d].reserved_memory) * 85)
        \div 100

\* the per-item estimate p of a workload kind and an input shape, in MB
PerItemEstimate(m, s) ==
    IF m # "easyocr" THEN 100
    ELSE IF Len(s) < 2 THEN 50
    ELSE IF (s[1] * s[2]) \div 10000 > 50 THEN (s[1] * s[2]) \div 10000
    ELSE 50

\* min(32, max(1, n))
Clamped(n) == IF n < 1 THEN 1 ELSE IF n > 32 THEN 32 ELSE n

\* C32 as stated: for a device with a pool the calculated batch size is
\* min(32, max(1, floor(U / p))), with nothing but the per-item estimate p
\* taken from the usable budget U
C32_BudgetOverEstimate ==
    \A d \in DOMAIN memory_pools, m \in ModelTypes, s \in InputSizes :
        calculate_optimal_batch_size(m, s, d)
            = Clamped(UsableBudget(d) \div PerItemEstimate(m, s))

\* C32: for a device with a pool the calculated batch size is
\* min(32, max(1, floor((U - b) / p))), where the fixed cost b of the model
\* is 500 MB for easyocr and 0 for every other workload kind
C32_BudgetLessModelOverEstimate ==
    \A d \in DOMAIN memory_pools, m \in ModelTypes, s \in InputSizes :
        calculate_optimal_batch_size(m, s, d)
            = Clamped((UsableBudget(d) - (IF m = "easyocr" THEN 500 ELSE 0))
                          \div PerItemEstimate(m, s))

\* a calculation for easyocr on a device with a pool returned a batch size
\* inside the range that is less than the budget alone would allow
C32_Witness ==
    /\ call.op = "get_optimal_batch_size"
    /\ ~call.cached
    /\ call.args[1] = "easyocr"
    /\ call.args[3] \in DOMAIN memory_pools
    /\ call.ret = calculate_optimal_batch_size("easyocr", call.args[2],
                                               call.args[3])
    /\ 1 < call.ret
    /\ call.ret
           < Clamped(UsableBudget(call.args[3])
                         \div PerItemEstimate("easyocr", call.args[2]))

\* the value cached for a key is kept by the step
CacheKept ==
    \A k \in DOMAIN optimal_batch_sizes :
        /\ k \in DOMAIN optimal_batch_sizes'
        /\ optimal_batch_sizes'[k] = optimal_batch_sizes[k]

\* the step is a get_optimal_batch_size call for a key that is in the cache
CachedCall ==
    /\ call'.op = "get_optimal_batch_size"
    /\ call'.args \in DOMAIN optimal_batch_sizes
    /\ call'.cached

\* C33: once a get_optimal_batch_size call has put a value into the cache
\* for a key, the value stays as it is, whatever is called for this or for
\* another key, and a call for the key returns it without a calculation
C33_CachedValueStays ==
    /\ [][CacheKept]_vars
    /\ [][CachedCall =>
              /\ call'.ret = optimal_batch_sizes[call'.args]
              /\ UNCHANGED <<optimal_batch_sizes, batch_calls>>]_vars

\* C34: easyocr.Reader returns a reader of a device kind only while the
\* engine has no reader of that kind, so each kind is constructed at most
\* once, whatever the worker threads of the executor do at the same time
C34_ReaderConstructedOnce ==
    [][call'.op = "easyocr.Reader" => reader_unset(engine, call'.args)]_vars

\* the locks coroutine i holds
Held(i) == {lock \in {"queue_lock", "processing_lock"} : event_loop[lock] = i}

\* the coroutines of a set all wait for locks that coroutines of the set hold
Deadlocked(set) ==
    \A i \in set :
        /\ event_loop.coroutines[i] # NoCoroutine
        /\ event_loop.coroutines[i].state = "blocked"
        /\ event_loop[Instruction(i).lock] \in set

\* C35: no coroutine holds queue_lock and processing_lock at the same time,
\* a coroutine suspended in an await of a sleep, of the engine or of a
\* callback holds no lock, and no set of coroutines is deadlocked
C35_LockDiscipline ==
    /\ \A i \in Slots : Cardinality(Held(i)) <= 1
    /\ \A i \in Slots \ FreeSlots :
           event_loop.coroutines[i].state = "awaiting" => Held(i) = {}
    /\ \A set \in SUBSET Slots : set # {} => ~Deadlocked(set)

\* a caller runs inside a block of one lock while one job task awaits the
\* engine and another one its callback
C35_Witness ==
    /\ event_loop.running # 0
    /\ Held(event_loop.running) # {}
    /\ event_loop.coroutines[event_loop.running].code \in PublicMethods
    /\ \E i, j \in Slots \ FreeSlots :
           /\ event_loop.coroutines[i] = [code |-> "process_job", pc |-> 4,
                                          state |-> "awaiting"]
           /\ event_loop.coroutines[j] = [code |-> "process_job", pc |-> 7,
                                          state |-> "awaiting"]

\* the confidences of the results of a list
ConfidencesOf(results) == {results[k].confidence : k \in 1..Len(results)}

\* C36: the average_confidence of the BatchOCRResult that process_image_batch
\* returns is the arithmetic mean of the confidences of its results, 0 for
\* an empty list, and so lies between the least and the greatest of them
C36_AverageIsMeanOfResults ==
    call.op = "process_image_batch" =>
        LET result == call.ret.result
            average == result.average_confidence
        IN  IF result.results = <<>>
            THEN average.numerator = 0
            ELSE /\ average.numerator * Len(result.results)
                        = SumOf(result.results, "confidence")
                              * average.denominator
                 /\ \E least, most \in ConfidencesOf(result.results) :
                        /\ least * average.denominator <= average.numerator
                        /\ average.numerator <= most * average.denominator

\* the jobs that _get_next_job popped and whose _process_job task has not
\* finished
InFlight == {j \in 1..Len(task) : task[j] \notin {"none", "done"}}

\* C37: the jobs popped by _get_next_job whose _process_job has not finished,
\* registered in processing_jobs or not, are never more than
\* max_concurrent_jobs, and they are the jobs with status Queued or
\* Processing and the Completed ones whose callback is still awaited
C37_InFlightBound ==
    /\ Cardinality(InFlight) <= max_concurrent_jobs
    /\ \A j \in 1..Len(jobs) :
           jobs[j].status \in {QUEUED, PROCESSING} => j \in InFlight

\* every slot is taken, by a job in the engine and by a job that was popped
\* and whose task has not started, while another job waits in the queue
C37_Witness ==
    /\ Cardinality(InFlight) = max_concurrent_jobs
    /\ job_queue # <<>>
    /\ \E j, k \in InFlight :
           /\ jobs[j].status = QUEUED /\ j \notin Range(processing_jobs)
           /\ jobs[k].status = PROCESSING /\ task[k] = "engine"

\* the jobs that have reached a terminal status, which no job leaves again
Reached(status) == {j \in 1..Len(jobs) : jobs[j].status = status}

\* C38: the counters of stats agree with the stores: pending_jobs is the
\* length of job_queue, processing_jobs the size of processing_jobs, neither
\* is negative, total_jobs is the number of jobs submitted, and
\* completed_jobs and failed_jobs are the numbers of jobs that have reached
\* Completed and Failed
C38_StatsAgree ==
    /\ stats.pending_jobs = Len(job_queue)
    /\ stats.processing_jobs = Len(processing_jobs)
    /\ stats.pending_jobs >= 0 /\ stats.processing_jobs >= 0
    /\ stats.total_jobs = Len(jobs)
    /\ stats.completed_jobs = Cardinality(Reached(COMPLETED))
    /\ stats.failed_jobs = Cardinality(Reached(FAILED))

\* how often job j is in a store
Occurrences(store, j) == Cardinality({i \in 1..Len(store) : store[i] = j})

\* C39: whenever another task can look, a job of job_queue is Pending and is
\* there once, a job of processing_jobs is Processing, a job of
\* completed_jobs is Completed, a job of failed_jobs is Failed, and no job
\* is in two of the stores
C39_StoreMatchesStatus ==
    \A j \in 1..Len(jobs) :
        /\ j \in Range(job_queue) =>
               jobs[j].status = PENDING /\ Occurrences(job_queue, j) = 1
        /\ j \in Range(processing_jobs) => jobs[j].status = PROCESSING
        /\ j \in Range(completed_jobs) => jobs[j].status = COMPLETED
        /\ j \in Range(failed_jobs) => jobs[j].status = FAILED
        /\ Occurrences(job_queue, j) + Occurrences(processing_jobs, j)
               + Occurrences(completed_jobs, j) + Occurrences(failed_jobs, j)
               <= 1

\* C40: a value that get_optimal_batch_size returns from its cache is the
\* value _calculate_optimal_batch_size gives for the key with the memory
\* pools as they are at the time of the call
C40_CachedValueIsCurrent ==
    call.op = "get_optimal_batch_size" /\ call.cached =>
        call.ret = calculate_optimal_batch_size(call.args[1], call.args[2],
                                                call.args[3])

====
